---- MODULE Spec2Model ----
(***************************************************************************)
(* Relay explorer: connection supervisor (NostrProvider), event cache     *)
(* (useEvents) and profile resolver (useProfiles), modelled as a state    *)
(* machine.  React state is one variable per useState / useRef cell; a    *)
(* handler together with the effects its state changes trigger is one     *)
(* atomic step (single-threaded, run-to-completion).  The transport (NDK  *)
(* pool, relay socket, subscription objects, fetch) is the environment:   *)
(* it reports connect, disconnect, handshake failure, events and EOSE     *)
(* through the listeners the code registers.                              *)
(***************************************************************************)
EXTENDS Integers, Sequences, FiniteSets, TLC

\* ------------------------------------------------------------------ bounds
MaxNdk == 2          \* NDK instances that can be alive at the same time
MaxSubs == 2         \* subscription objects that can be alive at the same time
MaxFlushes == 2      \* profile flushes whose later chunks can be waiting at the same time

\* ------------------------------------------------------- program constants
MAX_EVENTS == 1000
MAX_SUBSCRIPTIONS == 10

\* ------------------------------------------------------------- addresses
\* The addresses a user or a caller can pass, as character sequences.
UrlText ==
  << << "w","s","s",":","/","/","a" >>,
     << "W","S",":","/","/","b" >>,
     << "w","s","s",":","/","/" >>,
     << "h","t","t","p",":","/","/","a" >> >>

Urls == 1..Len(UrlText)

LowerAlpha == {"a","b","h","p","s","t","w"}
UpperAlpha == {"S","W"}

ToLower(c) == IF c = "S" THEN "s" ELSE IF c = "W" THEN "w" ELSE c

IsSchemeChar(c) == c \in LowerAlpha \cup UpperAlpha \cup {"+","-","."}

\* Index of the first ":" of t, 0 when there is none.
ColonAt(t) ==
  IF \E i \in 1..Len(t) : t[i] = ":"
    THEN CHOOSE i \in 1..Len(t) : t[i] = ":" /\ \A j \in 1..(i-1) : t[j] # ":"
    ELSE 0

SpecialSchemes == { <<"w","s">>, <<"w","s","s">>, <<"h","t","t","p">> }

RECURSIVE SkipSlashes(_)
SkipSlashes(t) ==
  IF Len(t) > 0 /\ Head(t) \in {"/","\\"} THEN SkipSlashes(Tail(t)) ELSE t

\* new URL(t).protocol without the trailing colon; <<>> when the constructor
\* throws (no scheme, or a special scheme without a host).
UrlProtocol(t) ==
  LET c == ColonAt(t) IN
  IF c <= 1 THEN << >>
  ELSE IF ~ (t[1] \in LowerAlpha \cup UpperAlpha) THEN << >>
  ELSE IF \E i \in 1..(c-1) : ~ IsSchemeChar(t[i]) THEN << >>
  ELSE LET scheme == [i \in 1..(c-1) |-> ToLower(t[i])]
           rest == SkipSlashes(SubSeq(t, c+1, Len(t)))
       IN IF scheme \in SpecialSchemes /\ (Len(rest) = 0 \/ Head(rest) \in {"?","#"})
            THEN << >>
            ELSE scheme

validateRelayUrl(u) ==
  UrlProtocol(UrlText[u]) \in { <<"w","s">>, <<"w","s","s">> }

\* ---------------------------------------------------------------- events
\* Events the relays can deliver; relay names the address that serves the
\* event.  Two of them carry the same identifier with different bodies: a
\* relay is untrusted and may redeliver an identifier.
EventPool ==
  { [id |-> 1, created_at |-> 1, pubkey |-> "p", kind |-> 1, relay |-> 1],
    [id |-> 1, created_at |-> 3, pubkey |-> "q", kind |-> 1, relay |-> 1],
    [id |-> 2, created_at |-> 2, pubkey |-> "q", kind |-> 1, relay |-> 2] }

\* event.id || ''  (identifier 0 stands for a missing identifier / '')
Key(e) == e.id

\* The generated stream used to fill the cache: event n has identifier n and
\* creation timestamp n.
StreamEvent(n) ==
  [id |-> n, created_at |-> n, pubkey |-> "p", kind |-> 1, relay |-> 1]

\* --------------------------------------------------------------- variables
VARIABLES
  ndk,                   \* useState ndk: instance id, 0 = null
  isConnected,
  connectionError,       \* "null" or the message
  relayUrl,              \* index into UrlText, 0 = null
  relayMetadata,         \* 0 = null, u = the metadata document served for u
  connectionStatus,
  activeSubscriptions,   \* the tracked Set, in insertion order
  connectionTimeoutRef,  \* TRUE while the timer it refers to is pending
  metadataAbortController, \* instance whose fetch the controller guards, 0 = undefined
  transport,             \* environment: per NDK instance, the relay socket and the fetch
  subs,                  \* environment: per subscription object
  eventsMap,             \* useEvents: Map id -> event, in insertion order
  loading,
  error,
  subscriptionRef,       \* useEvents subscriptionRef.current, 0 = null
  loadTimers,            \* subscriptions whose 10 s loading fallback is pending
  profiles,              \* useProfiles: Map pubkey -> CachedProfile
  subscription,          \* useProfiles: the batch subscription, 0 = null
  requestedPubkeys,
  pendingPubkeys,
  activeBatchesRef,
  batchTimeoutRef,       \* the pending batch timer and what its callback closed over
  filter,                \* useEvents: the display filter (EventFilter)
  discovery,             \* NIP66RelayDiscovery, its run and the state of its hook
  chunkTimers,           \* useProfiles: per flush, the pending timers of its later chunks
  isLoading,             \* useProfiles: isLoading state
  ceilingTimers,         \* useProfiles: the batches whose 10 s fallback timer is pending
  last                   \* history: the step taken last; flag tells its case

vars == << ndk, isConnected, connectionError, relayUrl, relayMetadata,
           connectionStatus, activeSubscriptions, connectionTimeoutRef,
           metadataAbortController, transport, subs, eventsMap, loading,
           error, subscriptionRef, loadTimers, profiles, subscription,
           requestedPubkeys, pendingPubkeys, activeBatchesRef,
           batchTimeoutRef, filter, discovery, chunkTimers, isLoading,
          ceilingTimers, last >>

NoTransport == [url |-> 0, st |-> "none", fetch |-> "none"]
\* sent: how many events of its stream the relay has sent on the subscription
NoSub ==
  [ndk |-> 0, st |-> "none", owner |-> "none", eose |-> FALSE, authors |-> {},
   sent |-> 0]

Pubkeys == {"p", "q"}

\* profiles.get(pubkey) of an author without a record
NoProfile == [cached |-> FALSE, name |-> "", picture |-> "", fresh |-> FALSE, src |-> 0]

\* batchTimeoutRef when no batch timer is pending
NoBatchTimer ==
  [armed |-> FALSE, pending |-> {}, isConnected |-> FALSE, ndk |-> 0, subscription |-> 0]

\* An optional field of the EventFilter: def is FALSE for undefined.  A Date
\* is its getTime() in milliseconds, 0 standing for undefined.
Undefined == [def |-> FALSE, v |-> << >>]
NoDateRange == [def |-> FALSE, from |-> 0, to |-> 0]

\* useState<EventFilter>(initialFilter || {})
NoFilter ==
  [authors |-> Undefined, kinds |-> Undefined, dateRange |-> NoDateRange,
   search |-> Undefined]

\* Confidences are counted in sixtieths: 0.5 is 30, 0.2 is 12.
ConfidenceUnit == 60

\* popularRelays, the curated list (two entries stand for the eleven).
popularRelays == << "c1", "c2" >>

\* convertPopularRelaysToNIP66
convertPopularRelaysToNIP66 ==
  [i \in 1..Len(popularRelays) |->
     [url |-> popularRelays[i], status |-> "unknown",
      confidence |-> ConfidenceUnit \div 2]]

\* Monitors the bootstrap relays know, and the relay addresses the reports
\* name in their d tag ("bad" is not a ws:// or wss:// address).
MonitorKeys == {"m1", "m2"}
ReportUrls == {"c1", "d1", "d2", "bad"}

\* A RelayDiscoveryState before any run: the initial state of the hook.
NoRunState == [relays |-> << >>, monitors |-> {}, loading |-> FALSE, error |-> "null"]

\* The discovery service before its first call.  monitors gives the
\* reliability of each monitor in tenths, NoMonitor for a monitor not in the
\* Map of the manager;
\* relayReports keeps the reports per address in the order of the Map;
\* refresh remembers whether refreshRelays started the run and the catalog
\* the hook showed when it did.
NoRefresh == [on |-> FALSE, relays |-> << >>]
NoMonitor == -1

NoDiscovery ==
  [discoveryNdk |-> FALSE, monitorManager |-> FALSE, isInitialized |-> FALSE,
   relayCache |-> {}, bootstrap |-> "down",
   monitors |-> [p \in MonitorKeys |-> NoMonitor],
   phase |-> "none", state |-> NoRunState,
   returned |-> [def |-> FALSE, v |-> NoRunState],
   hookState |-> NoRunState,
   relayReports |-> << >>, eventCount |-> 0, timer |-> FALSE,
   refresh |-> NoRefresh]

\* The program state as one record, so that handlers compose.
State ==
  [ ndk |-> ndk, isConnected |-> isConnected, connectionError |-> connectionError,
    relayUrl |-> relayUrl, relayMetadata |-> relayMetadata,
    connectionStatus |-> connectionStatus,
    activeSubscriptions |-> activeSubscriptions,
    connectionTimeoutRef |-> connectionTimeoutRef,
    metadataAbortController |-> metadataAbortController,
    transport |-> transport, subs |-> subs, eventsMap |-> eventsMap,
    loading |-> loading, error |-> error, subscriptionRef |-> subscriptionRef,
    loadTimers |-> loadTimers,
    profiles |-> profiles, subscription |-> subscription,
    requestedPubkeys |-> requestedPubkeys, pendingPubkeys |-> pendingPubkeys,
    activeBatchesRef |-> activeBatchesRef, batchTimeoutRef |-> batchTimeoutRef,
    filter |-> filter, discovery |-> discovery, chunkTimers |-> chunkTimers,
    isLoading |-> isLoading, ceilingTimers |-> ceilingTimers,
    oom |-> FALSE ]                \* set when the model has no free slot left

InitState ==
  [ ndk |-> 0, isConnected |-> FALSE, connectionError |-> "null",
    relayUrl |-> 0, relayMetadata |-> 0, connectionStatus |-> "disconnected",
    activeSubscriptions |-> << >>, connectionTimeoutRef |-> FALSE,
    metadataAbortController |-> 0,
    transport |-> [i \in 1..MaxNdk |-> NoTransport],
    subs |-> [i \in 1..MaxSubs |-> NoSub], eventsMap |-> << >>,
    loading |-> FALSE, error |-> "null", subscriptionRef |-> 0,
    loadTimers |-> {},
    profiles |-> [p \in Pubkeys |-> NoProfile], subscription |-> 0,
    requestedPubkeys |-> {}, pendingPubkeys |-> {}, activeBatchesRef |-> {},
    batchTimeoutRef |-> NoBatchTimer, filter |-> NoFilter,
    discovery |-> NoDiscovery, chunkTimers |-> << >>, isLoading |-> FALSE,
    ceilingTimers |-> {}, oom |-> FALSE ]


\* ------------------------------------------------------------ small helpers
Min(S) == CHOOSE x \in S : \A y \in S : x <= y
Max(S) == CHOOSE x \in S : \A y \in S : x >= y

SeqToSet(q) == { q[i] : i \in 1..Len(q) }

SeqRemove(q, x) == SelectSeq(q, LAMBDA y : y # x)

\* ---------------------------------------------------- Map (insertion order)
HasKey(m, k) == \E i \in 1..Len(m) : m[i].key = k

\* Map.prototype.set: an existing key keeps its position and takes the value.
MapSet(m, k, v) ==
  IF HasKey(m, k)
    THEN [i \in 1..Len(m) |-> IF m[i].key = k THEN v ELSE m[i]]
    ELSE Append(m, v)

\* The updater without the prevMap.has check.
InsertNoDedup(m, e) ==
  MapSet(m, Key(e), [key |-> Key(e), ev |-> e])

\* The setEventsMap updater of the event callback.
Insert(m, e) ==
  IF HasKey(m, Key(e))
    THEN m
    ELSE MapSet(m, Key(e), [key |-> Key(e), ev |-> e])

\* ------------------------------------------------- slots of the environment
\* Objects nothing refers to any more are forgotten, so that their slot can be
\* taken by the next object created.
SubReferenced(s, i) ==
  \/ s.subs[i].st \in {"live", "idle"}
  \/ i \in SeqToSet(s.activeSubscriptions)
  \/ i = s.subscriptionRef
  \/ i \in s.loadTimers
  \/ i = s.subscription
  \/ i = s.batchTimeoutRef.subscription
  \/ \E f \in 1..Len(s.chunkTimers) : \E k \in 1..Len(s.chunkTimers[f]) :
        i = s.chunkTimers[f][k].subscription

TransportDead(s, i) ==
  /\ i # s.ndk
  /\ s.transport[i].st \in {"closed", "aborted", "failed"}
  /\ s.transport[i].fetch # "pending"
  /\ i # s.batchTimeoutRef.ndk
  /\ \A f \in 1..Len(s.chunkTimers) : \A k \in 1..Len(s.chunkTimers[f]) :
        i # s.chunkTimers[f][k].ndk
  /\ \A j \in DOMAIN s.subs : s.subs[j].st \in {"live", "idle"} => s.subs[j].ndk # i

Normalize(s) ==
  [s EXCEPT
     !.subs = [i \in DOMAIN s.subs |->
                 IF SubReferenced(s, i)
                   THEN (IF s.subs[i].st = "stopped"
                           THEN [NoSub EXCEPT !.st = "stopped",
                                              !.owner = s.subs[i].owner]
                           ELSE s.subs[i])
                   ELSE NoSub],
     !.transport = [i \in 1..MaxNdk |->
                 IF TransportDead(s, i) THEN NoTransport ELSE s.transport[i]],
     !.metadataAbortController =
                 IF s.metadataAbortController # 0
                    /\ TransportDead(s, s.metadataAbortController)
                   THEN 0 ELSE s.metadataAbortController]

FreeSubs(s) == { i \in DOMAIN s.subs : s.subs[i].st = "none" }
FreeNdks(s) == { i \in 1..MaxNdk : s.transport[i].st = "none" }

\* The slot of a new subscription object: the first free one after the newest
\* tracked handle, cyclically (only the identity of the object depends on it).
NextFree(s) ==
  LET n == Cardinality(DOMAIN s.subs)
      q == s.activeSubscriptions
      start == IF q = << >> THEN 0 ELSE q[Len(q)]
      at(d) == ((start + d - 1) % n) + 1
  IN at(Min({ d \in 1..n : at(d) \in FreeSubs(s) }))

\* ------------------------------------------------------------ subscriptions
\* NDKSubscription.stop(): idempotent; a running subscription emits 'close',
\* which runs the provider's listener (untrack) and, for the event consumer,
\* the listener of useEvents (clear the fallback timer, loading false).
StopSub(s, i) ==
  IF i = 0 \/ s.subs[i].st \notin {"live", "idle"} THEN s
  ELSE [s EXCEPT
          !.subs[i].st = "stopped",
          !.activeSubscriptions = SeqRemove(s.activeSubscriptions, i),
          !.loadTimers = IF s.subs[i].owner = "events" /\ i \in s.loadTimers
                           THEN s.loadTimers \ {i} ELSE s.loadTimers,
          !.loading = IF s.subs[i].owner = "events" /\ i \in s.loadTimers
                        THEN FALSE ELSE s.loading]

RECURSIVE StopEach(_, _)
StopEach(s, q) ==
  IF Len(q) = 0 THEN s ELSE StopEach(StopSub(s, Head(q)), Tail(q))

\* activeSubscriptions.current.forEach(sub => sub.stop()); clear()
StopAllSubscriptions(s) ==
  [StopEach(s, s.activeSubscriptions) EXCEPT !.activeSubscriptions = << >>]

\* The pool left as it is: no relay.disconnect().
RelayDisconnectSkipped(s, i) == s

\* relay.disconnect() on every relay of an instance's pool: an open socket
\* starts closing, a handshake in progress is given up.
RelayDisconnect(s, i) ==
  IF i = 0 THEN s
  ELSE [s EXCEPT !.transport[i].st =
          CASE s.transport[i].st = "connected"  -> "closing"
            [] s.transport[i].st = "connecting" -> "aborted"
            [] OTHER -> s.transport[i].st]

\* metadataAbortController.current.abort(): a pending fetch rejects with
\* AbortError, fetchRelayMetadata returns null and connect's then-handler
\* stores it.
AbortMetadataFetch(s) ==
  LET c == s.metadataAbortController IN
  IF c # 0 /\ s.transport[c].fetch = "pending"
    THEN [s EXCEPT !.transport[c].fetch = "done", !.relayMetadata = 0]
    ELSE s

\* subscribe() with the limit compared by > instead of >=.
SubscribeOnLimitOffByOne(s, inst, owner, authors, thr) ==
  IF inst = 0 THEN [s |-> s, h |-> 0]
  ELSE
    LET s1 == IF Len(s.activeSubscriptions) > MAX_SUBSCRIPTIONS
                THEN StopSub(s, Head(s.activeSubscriptions)) ELSE s
        s2 == Normalize(s1)
    IN IF thr = "subscribe" THEN [s |-> s1, h |-> 0]
       ELSE IF FreeSubs(s2) = {} THEN [s |-> s1, h |-> -1]
       ELSE LET id == NextFree(s2)
                s3 == [s2 EXCEPT
                         !.subs[id] = [ndk |-> inst, owner |-> owner, eose |-> FALSE,
                                       authors |-> authors, sent |-> 0,
                                       st |-> IF thr = "start" THEN "idle" ELSE "live"],
                         !.activeSubscriptions = Append(s2.activeSubscriptions, id)]
            IN [s |-> s3, h |-> IF thr = "start" THEN 0 ELSE id]

\* subscribe(filter, callback) of the provider, as closed over instance inst
\* (the ndk of the render that created the closure).  thr says where the
\* transport throws: "none", "subscribe" (ndk.subscribe) or "start"
\* (subscription.start).  Result: the state and the handle (0 = null, -1 = no
\* free slot in the model).
SubscribeOn(s, inst, owner, authors, thr) ==
  IF inst = 0 THEN [s |-> s, h |-> 0]
  ELSE
    LET s1 == IF Len(s.activeSubscriptions) >= MAX_SUBSCRIPTIONS
                THEN StopSub(s, Head(s.activeSubscriptions)) ELSE s
        s2 == Normalize(s1)
    IN IF thr = "subscribe" THEN [s |-> s1, h |-> 0]
       ELSE IF FreeSubs(s2) = {} THEN [s |-> s1, h |-> -1]
       ELSE LET id == NextFree(s2)
                s3 == [s2 EXCEPT
                         !.subs[id] = [ndk |-> inst, owner |-> owner, eose |-> FALSE,
                                       authors |-> authors, sent |-> 0,
                                       st |-> IF thr = "start" THEN "idle" ELSE "live"],
                         !.activeSubscriptions = Append(s2.activeSubscriptions, id)]
            IN [s |-> s3, h |-> IF thr = "start" THEN 0 ELSE id]

Subscribe(s, owner, thr) == SubscribeOn(s, s.ndk, owner, {}, thr)

\* ------------------------------------------------------------------ useEvents
\* subscribeToEvents without setLoading(false) when subscribe returns null.
subscribeToEventsKeepsLoading(s, thr) ==
  IF ~ s.isConnected \/ s.ndk = 0 THEN [s EXCEPT !.loading = FALSE]
  ELSE
    LET s1 == [StopSub(s, s.subscriptionRef) EXCEPT !.subscriptionRef = 0]
        s2 == [s1 EXCEPT !.loading = TRUE, !.error = "null"]
        r  == Subscribe(s2, "events", thr)
    IN IF r.h = -1 THEN [s EXCEPT !.oom = TRUE]
       ELSE IF r.h # 0
         THEN [r.s EXCEPT !.subscriptionRef = r.h,
                          !.loadTimers = r.s.loadTimers \cup {r.h}]
         ELSE [r.s EXCEPT !.error = "Failed to create subscription"]

\* subscribeToEvents without the stop of the existing subscription.
subscribeToEventsNoStop(s, thr) ==
  IF ~ s.isConnected \/ s.ndk = 0 THEN [s EXCEPT !.loading = FALSE]
  ELSE
    LET s2 == [s EXCEPT !.subscriptionRef = 0, !.loading = TRUE, !.error = "null"]
        r  == Subscribe(s2, "events", thr)
    IN IF r.h = -1 THEN [s EXCEPT !.oom = TRUE]
       ELSE IF r.h # 0
         THEN [r.s EXCEPT !.subscriptionRef = r.h,
                          !.loadTimers = r.s.loadTimers \cup {r.h}]
         ELSE [r.s EXCEPT !.loading = FALSE,
                          !.error = "Failed to create subscription"]

\* subscribeToEvents (also exposed as refetch).
subscribeToEvents(s, thr) ==
  IF ~ s.isConnected \/ s.ndk = 0 THEN [s EXCEPT !.loading = FALSE]
  ELSE
    LET s1 == [StopSub(s, s.subscriptionRef) EXCEPT !.subscriptionRef = 0]
        s2 == [s1 EXCEPT !.loading = TRUE, !.error = "null"]
        r  == Subscribe(s2, "events", thr)
    IN IF r.h = -1 THEN [s EXCEPT !.oom = TRUE]
       ELSE IF r.h # 0
         THEN [r.s EXCEPT !.subscriptionRef = r.h,
                          !.loadTimers = r.s.loadTimers \cup {r.h}]
         ELSE [r.s EXCEPT !.loading = FALSE,
                          !.error = "Failed to create subscription"]

\* The effect of useEvents with dependency [isConnected]: it runs after a
\* render in which isConnected differs from the previous render.
IsConnectedEffect(old, s, thr) ==
  IF s.isConnected = old.isConnected THEN s
  ELSE IF s.isConnected THEN subscribeToEvents(s, thr)
  ELSE [StopSub(s, s.subscriptionRef) EXCEPT
          !.eventsMap = << >>, !.loading = FALSE, !.subscriptionRef = 0]

\* ---------------------------------------------------------------- useProfiles
MAX_BATCH_SIZE == 50
MIN_BATCH_DELAY == 2000

\* Kind-0 events the relays can deliver.  The content is the JSON text by its
\* shape: an object with the fields it carries, text that does not parse, the
\* literal null, or a number.
ProfilePool ==
  { [id |-> 11, pubkey |-> "p", created_at |-> 1, kind |-> 0,
     content |-> [json |-> "object", name |-> "n1", picture |-> "u1"]],
    [id |-> 12, pubkey |-> "p", created_at |-> 2, kind |-> 0,
     content |-> [json |-> "object", name |-> "n2", picture |-> ""]],
    [id |-> 13, pubkey |-> "q", created_at |-> 1, kind |-> 0,
     content |-> [json |-> "invalid", name |-> "", picture |-> ""]],
    [id |-> 14, pubkey |-> "p", created_at |-> 3, kind |-> 0,
     content |-> [json |-> "invalid", name |-> "", picture |-> ""]] }

\* parseProfileData: JSON.parse and the projection on the profile fields
\* (name and picture stand for the four fields, all copied the same way).
\* JSON.parse throws on malformed text and reading a field of null throws:
\* both are caught and give null.  A number parses and has no fields.
parseProfileData(c) ==
  CASE c.json = "object"  -> [ok |-> TRUE,  name |-> c.name, picture |-> c.picture]
    [] c.json = "number"  -> [ok |-> TRUE,  name |-> "", picture |-> ""]
    [] OTHER              -> [ok |-> FALSE, name |-> "", picture |-> ""]

\* The event callback storing an empty record when the content does not parse.
onProfileEventStoresUnparsed(s, e) ==
  LET d == parseProfileData(e.content) IN
  IF e.kind = 0 /\ e.pubkey # ""
    THEN [s EXCEPT
            !.profiles[e.pubkey] = [cached |-> TRUE, name |-> d.name,
                                    picture |-> d.picture, fresh |-> TRUE,
                                    src |-> e.created_at],
            !.pendingPubkeys = s.pendingPubkeys \ {e.pubkey},
            !.activeBatchesRef = s.activeBatchesRef \ {e.pubkey}]
    ELSE s

\* The event callback of a batch subscription.  src records the creation
\* timestamp of the event the record was parsed from; fresh is
\* Date.now() - lastUpdated < PROFILE_CACHE_TTL.
onProfileEvent(s, e) ==
  LET d == parseProfileData(e.content) IN
  IF e.kind = 0 /\ e.pubkey # "" /\ d.ok
    THEN [s EXCEPT
            !.profiles[e.pubkey] = [cached |-> TRUE, name |-> d.name,
                                    picture |-> d.picture, fresh |-> TRUE,
                                    src |-> e.created_at],
            !.pendingPubkeys = s.pendingPubkeys \ {e.pubkey},
            !.activeBatchesRef = s.activeBatchesRef \ {e.pubkey}]
    ELSE s

\* pendingArray.slice(i, i + size) where pendingArray is Array.from of the
\* authors not yet sliced off: the next size authors in the order of the Set,
\* which the model takes to be the order in which CHOOSE enumerates them.
RECURSIVE Slice(_, _)
Slice(S, size) ==
  IF S = {} \/ size = 0 THEN << >>
  ELSE LET x == CHOOSE y \in S : TRUE
       IN << x >> \o Slice({ y \in S : y # x }, size - 1)

\* for (let i = 0; i < pendingArray.length; i += size)
\*   batches.push(pendingArray.slice(i, i + size))
\* A batch is kept as the set of its authors.
RECURSIVE BatchesOfSize(_, _)
BatchesOfSize(S, size) ==
  IF S = {} THEN << >>
  ELSE LET batch == SeqToSet(Slice(S, size))
       IN << batch >> \o BatchesOfSize(S \ batch, size)

\* The chunking loop with chunks of one author more.
BatchesOneMore(P) == BatchesOfSize(P, MAX_BATCH_SIZE + 1)

\* batches of scheduleBatchUpdate's timer callback.
Batches(P) == BatchesOfSize(P, MAX_BATCH_SIZE)

\* batches[0] of scheduleBatchUpdate's timer callback.
FirstBatch(P) == IF P = {} THEN {} ELSE Batches(P)[1]

\* A flush that sets no timer for its later chunks.
NoLaterChunks(P, c) == << >>

\* batches.slice(1).forEach(...): the timers of the later chunks of a flush,
\* each with its delay and the render c its callback closes over.
LaterChunks(P, c) ==
  LET batches == Batches(P)
  IN [index \in 1..(Len(batches) - 1) |->
        [batch |-> batches[index + 1],
         delay |-> index * MIN_BATCH_DELAY,
         isConnected |-> c.isConnected, ndk |-> c.ndk,
         subscription |-> c.subscription]]

\* createBatchSubscription as closed over c = (isConnected, ndk, subscription)
\* of the render that scheduled it.
createBatchSubscription(s, c, batch, thr) ==
  IF ~ c.isConnected \/ c.ndk = 0 \/ batch = {} THEN s
  ELSE
    LET s0 == IF c.subscription # 0
                THEN [StopSub(s, c.subscription) EXCEPT !.subscription = 0] ELSE s
        s1 == [s0 EXCEPT !.isLoading = TRUE]
        r  == SubscribeOn(s1, c.ndk, "profiles", batch, thr)
    IN IF r.h = -1 THEN [s EXCEPT !.oom = TRUE]
       ELSE IF r.h # 0
         THEN [r.s EXCEPT !.subscription = r.h,
                          !.requestedPubkeys = r.s.requestedPubkeys \cup batch,
                          !.ceilingTimers = r.s.ceilingTimers \cup {batch}]
         ELSE r.s

\* requestProfiles(pubkeys)
requestProfiles(s, P) ==
  LET newPubkeys == { k \in P :
         /\ k \notin s.pendingPubkeys /\ k \notin s.activeBatchesRef
         /\ k \notin s.requestedPubkeys
         /\ ~ (s.profiles[k].cached /\ s.profiles[k].fresh) }
  IN IF newPubkeys # {}
       THEN [s EXCEPT !.pendingPubkeys = s.pendingPubkeys \cup newPubkeys,
                      !.activeBatchesRef = s.activeBatchesRef \cup newPubkeys]
       ELSE s

\* The cleanup of the effect with the dependency [subscription]: when the
\* subscription state is a new value it stops the subscription of the render
\* before and clears the batch timer (touched with other subscription
\* objects: a new subscription in the slot of the old one, already stopped).
SubscriptionCleanup(old, s, touched) ==
  IF s.subscription # old.subscription \/ (touched /\ s.subs # old.subs)
    THEN [(IF old.subscription # 0 /\ old.subscription # s.subscription
             THEN StopSub(s, old.subscription) ELSE s)
          EXCEPT !.batchTimeoutRef = NoBatchTimer]
    ELSE s

\* The effect with the dependency pendingPubkeys alone.
BatchEffectPendingOnly(old, s, touched) ==
  IF s.pendingPubkeys # old.pendingPubkeys /\ s.pendingPubkeys # {}
    THEN [SubscriptionCleanup(old, s, touched) EXCEPT !.batchTimeoutRef =
            [armed |-> TRUE, pending |-> s.pendingPubkeys,
             isConnected |-> s.isConnected, ndk |-> s.ndk,
             subscription |-> s.subscription]]
    ELSE SubscriptionCleanup(old, s, touched)

\* The effects of useProfiles after a render.  First the cleanup above; then
\* the effect with dependencies [pendingPubkeys, scheduleBatchUpdate]: it runs
\* when pendingPubkeys, isConnected, ndk or subscription is a new value
\* (touched: a new object equal to the old one) and, with pubkeys pending,
\* replaces the batch timer by one whose callback closes over this render.
BatchEffect(old, s, touched) ==
  IF /\ \/ touched
        \/ s.pendingPubkeys # old.pendingPubkeys
        \/ s.isConnected # old.isConnected
        \/ s.ndk # old.ndk
        \/ s.subscription # old.subscription
     /\ s.pendingPubkeys # {}
    THEN [SubscriptionCleanup(old, s, touched) EXCEPT !.batchTimeoutRef =
            [armed |-> TRUE, pending |-> s.pendingPubkeys,
             isConnected |-> s.isConnected, ndk |-> s.ndk,
             subscription |-> s.subscription]]
    ELSE SubscriptionCleanup(old, s, touched)

\* ------------------------------------------------------------- NostrProvider
\* connect(url, kinds)
connect(s, u) ==
  LET s1 == [s EXCEPT !.connectionTimeoutRef = FALSE,
                      !.connectionStatus = "connecting",
                      !.connectionError = "null",
                      !.relayUrl = u]
      s2 == IF s.ndk # 0
              THEN RelayDisconnect(StopAllSubscriptions(s1), s.ndk) ELSE s1
      s3 == Normalize([AbortMetadataFetch(s2) EXCEPT !.ndk = 0])
  IN IF FreeNdks(s3) = {} THEN [s EXCEPT !.oom = TRUE]
     ELSE LET id == Min(FreeNdks(s3))
          IN [s3 EXCEPT
                !.transport[id] = [url |-> u, st |-> "connecting", fetch |-> "pending"],
                !.metadataAbortController = id,
                !.ndk = id,
                !.connectionTimeoutRef = TRUE]

\* disconnect() without the loop that disconnects the relays of the pool.
disconnectKeepsTransport(s) ==
  LET s1 == [s EXCEPT !.connectionTimeoutRef = FALSE]
      s2 == StopAllSubscriptions(AbortMetadataFetch(s1))
  IN [s2 EXCEPT !.ndk = 0, !.isConnected = FALSE,
                !.connectionStatus = "disconnected", !.connectionError = "null",
                !.relayUrl = 0, !.relayMetadata = 0]

\* disconnect()
disconnect(s) ==
  LET s1 == [s EXCEPT !.connectionTimeoutRef = FALSE]
      s2 == RelayDisconnect(StopAllSubscriptions(AbortMetadataFetch(s1)), s.ndk)
  IN [s2 EXCEPT !.ndk = 0, !.isConnected = FALSE,
                !.connectionStatus = "disconnected", !.connectionError = "null",
                !.relayUrl = 0, !.relayMetadata = 0]

\* The relay:connect listener without clearTimeout.
onRelayConnectKeepsTimer(s) ==
  [s EXCEPT !.isConnected = TRUE, !.connectionStatus = "connected",
            !.connectionError = "null"]

\* newNdk.pool.on('relay:connect', ...)
onRelayConnect(s) ==
  [s EXCEPT !.isConnected = TRUE, !.connectionStatus = "connected",
            !.connectionError = "null", !.connectionTimeoutRef = FALSE]

\* newNdk.pool.on('relay:disconnect', ...)
onRelayDisconnect(s) ==
  [s EXCEPT !.isConnected = FALSE, !.connectionStatus = "disconnected"]

\* the connection timeout callback
onConnectionTimeout(s) ==
  [s EXCEPT !.connectionError = "Connection timeout",
            !.connectionStatus = "error", !.isConnected = FALSE,
            !.connectionTimeoutRef = FALSE]

\* connectPromise.catch(...)
onConnectRejected(s) ==
  [s EXCEPT !.connectionError = "Connection failed",
            !.connectionStatus = "error", !.isConnected = FALSE]

\* handleConnect of the relay connector (the address check is the first step;
\* the later checks of the form fields do not depend on the address).
handleConnect(s, u) ==
  IF ~ validateRelayUrl(u) THEN s
  ELSE IF s.isConnected THEN disconnect(s)
  ELSE connect(s, u)


\* -------------------------------------------------------------------- steps
\* What the claims call a well-formed relay address: the scheme ws or wss (in
\* any letter case), "://", and a host.
WellFormedRelayAddress(t) ==
  \E n \in {2, 3} :
     /\ Len(t) > n + 3
     /\ [i \in 1..n |-> ToLower(t[i])] \in { <<"w","s">>, <<"w","s","s">> }
     /\ SubSeq(t, n + 1, n + 3) = << ":", "/", "/" >>
     /\ t[n + 4] \notin {"/", "?", "#"}

ThrowPoints == {"none", "subscribe", "start"}

\* A step ends in state s (slots of forgotten objects released).
CommitT(s, op, flag, touched) ==
  /\ ~ s.oom
  /\ \E n \in {Normalize(BatchEffect(State, s, touched))} :
     /\ ndk' = n.ndk
     /\ isConnected' = n.isConnected
     /\ connectionError' = n.connectionError
     /\ relayUrl' = n.relayUrl
     /\ relayMetadata' = n.relayMetadata
     /\ connectionStatus' = n.connectionStatus
     /\ activeSubscriptions' = n.activeSubscriptions
     /\ connectionTimeoutRef' = n.connectionTimeoutRef
     /\ metadataAbortController' = n.metadataAbortController
     /\ transport' = n.transport
     /\ subs' = n.subs
     /\ eventsMap' = n.eventsMap
     /\ loading' = n.loading
     /\ error' = n.error
     /\ subscriptionRef' = n.subscriptionRef
     /\ loadTimers' = n.loadTimers
     /\ profiles' = n.profiles
     /\ subscription' = n.subscription
     /\ requestedPubkeys' = n.requestedPubkeys
     /\ pendingPubkeys' = n.pendingPubkeys
     /\ activeBatchesRef' = n.activeBatchesRef
     /\ batchTimeoutRef' = n.batchTimeoutRef
     /\ filter' = n.filter
     /\ discovery' = n.discovery
     /\ chunkTimers' = n.chunkTimers
     /\ isLoading' = n.isLoading
     /\ ceilingTimers' = n.ceilingTimers
  /\ last' = [op |-> op, flag |-> flag]

Commit(s, op, flag) == CommitT(s, op, flag, FALSE)

\* A consumer of the context calls connect(url).
ApiConnect(u) ==
  /\ u \in Urls
  /\ CommitT(IsConnectedEffect(State, connect(State, u), "none"),
             "connect", ~ WellFormedRelayAddress(UrlText[u]), TRUE)

\* A consumer of the context calls disconnect().
ApiDisconnect ==
  /\ TRUE   \* callable in every state
  /\ Commit(IsConnectedEffect(State, disconnect(State), "none"),
         "disconnect", isConnected /\ eventsMap # << >>)

\* The user presses the connect / disconnect button with address u entered.
HandleConnect(u) ==
  /\ u \in Urls
  /\ CommitT(IsConnectedEffect(State, handleConnect(State, u), "none"),
             "handleConnect", ~ WellFormedRelayAddress(UrlText[u]),
             validateRelayUrl(u) /\ ~ isConnected)

\* The socket of instance i opens.
TransportConnect(i, thr) ==
  /\ transport[i].st = "connecting"
  /\ validateRelayUrl(transport[i].url)
  /\ LET s1 == [State EXCEPT !.transport[i].st = "connected"]
     IN Commit(IsConnectedEffect(State, onRelayConnect(s1), thr),
               "relay:connect", FALSE)

\* The socket of instance i closes: dropped by the relay, or the close that
\* follows relay.disconnect().
TransportDisconnect(i) ==
  /\ transport[i].st \in {"connected", "closing"}
  /\ LET s1 == [State EXCEPT !.transport[i].st = "closed"]
     IN Commit(IsConnectedEffect(State, onRelayDisconnect(s1), "none"),
               "relay:disconnect", transport[i].st = "closing")

\* The handshake of instance i fails and its connect promise rejects.
HandshakeReject(i) ==
  /\ transport[i].st = "connecting"
  /\ LET s1 == [State EXCEPT !.transport[i].st = "failed"]
     IN Commit(IsConnectedEffect(State, onConnectRejected(s1), "none"),
               "connect:rejected", FALSE)

\* CONNECTION_TIMEOUT elapses.
ConnectionTimeout ==
  /\ connectionTimeoutRef
  /\ Commit(IsConnectedEffect(State, onConnectionTimeout(State), "none"),
            "timeout", FALSE)

\* The metadata fetch of instance i completes (ok: HTTP 200 with a document).
MetadataResolve(i, ok) ==
  /\ transport[i].fetch = "pending"
  /\ Commit([State EXCEPT !.transport[i].fetch = "done",
                          !.relayMetadata = IF ok THEN transport[i].url ELSE 0],
            "metadata", ok)

CanDeliver(b) ==
  /\ subs[b].st = "live"
  /\ transport[subs[b].ndk].st = "connected"

\* The event callback of the event consumer's subscription b runs for e.
EventDeliver(b, e) ==
  /\ CanDeliver(b)
  /\ subs[b].owner = "events"
  /\ e.relay = transport[subs[b].ndk].url
  /\ Commit([State EXCEPT !.eventsMap = Insert(eventsMap, e)],
            "event", HasKey(eventsMap, Key(e)))

\* The eose listener without setLoading(false).
EoseKeepsLoading(b) ==
  /\ CanDeliver(b)
  /\ ~ subs[b].eose
  /\ subs[b].owner = "events"
  /\ Commit([State EXCEPT !.subs[b].eose = TRUE,
                          !.loadTimers = loadTimers \ {b}],
            "eose", FALSE)

\* End of stored events on subscription b.
Eose(b) ==
  /\ CanDeliver(b)
  /\ ~ subs[b].eose
  /\ subs[b].owner = "events"
  /\ Commit([State EXCEPT !.subs[b].eose = TRUE,
                          !.loadTimers = loadTimers \ {b},
                          !.loading = FALSE],
            "eose", FALSE)

\* The 10 s loading fallback of subscription b fires.
LoadingTimeout(b) ==
  /\ b \in loadTimers
  /\ Commit([State EXCEPT !.loadTimers = loadTimers \ {b}, !.loading = FALSE],
            "loadingTimeout", FALSE)

\* The user asks for a refetch.
Refetch(thr) ==
  /\ thr \in ThrowPoints
  /\ Commit(subscribeToEvents(State, thr), "refetch",
            thr # "none" /\ isConnected /\ ndk # 0)

\* A component asks for the profiles of the authors P it displays.
RequestProfiles(P) ==
  /\ P # {}
  /\ Commit(requestProfiles(State, P), "requestProfiles", FALSE)

\* The batch timer fires: the first chunk is requested at once.
BatchTimeout(thr) ==
  /\ batchTimeoutRef.armed
  /\ \E c \in {batchTimeoutRef} :
     \E later \in {LaterChunks(c.pending, c)} :
     \E s1 \in {[State EXCEPT !.batchTimeoutRef = NoBatchTimer]} :
     \E s2 \in {createBatchSubscription(s1, c, FirstBatch(c.pending), thr)} :
     \E s3 \in {IF Len(later) > 0
                  THEN [s2 EXCEPT !.chunkTimers = Append(@, later)] ELSE s2} :
        /\ Len(later) > 0 => Len(chunkTimers) < MaxFlushes
        /\ CommitT(s3, "batchTimeout", s2.subscription # 0 /\ s2.subs # s1.subs,
                   s2.subs # s1.subs)

\* A timer of flush f may run when no timer set before it expires sooner:
\* none of its own flush, and none of an earlier flush with a delay that is
\* not longer.
ChunkTimerDue(f, k) ==
  /\ \A j \in 1..Len(chunkTimers[f]) :
        chunkTimers[f][j].delay >= chunkTimers[f][k].delay
  /\ \A g \in 1..(f - 1) : \A j \in 1..Len(chunkTimers[g]) :
        chunkTimers[g][j].delay > chunkTimers[f][k].delay

\* The timer of a later chunk of flush f fires:
\* setTimeout(() => createBatchSubscription(batch), (index + 1) * MIN_BATCH_DELAY)
ChunkTimeout(f, k, thr) ==
  /\ f \in 1..Len(chunkTimers)
  /\ k \in 1..Len(chunkTimers[f])
  /\ ChunkTimerDue(f, k)
  /\ \E c \in {chunkTimers[f][k]} :
     \E rest \in {[chunkTimers EXCEPT ![f] = SeqRemove(@, c)]} :
     \E s1 \in {[State EXCEPT !.chunkTimers = SelectSeq(rest, LAMBDA q : Len(q) > 0)]} :
     \E s2 \in {createBatchSubscription(s1, c, c.batch, thr)} :
        CommitT(s2, "chunkTimeout", s2.subscription # 0 /\ s2.subs # s1.subs,
                s2.subs # s1.subs)

\* The event callback of batch subscription b runs for e.
ProfileEventDeliver(b, e) ==
  /\ CanDeliver(b)
  /\ subs[b].owner = "profiles"
  /\ e.pubkey \in subs[b].authors
  /\ CommitT(onProfileEvent(State, e),
             IF parseProfileData(e.content).ok THEN "profileEvent"
                                               ELSE "profileParseError",
             profiles[e.pubkey].cached, parseProfileData(e.content).ok)

\* The 'eose' listener of batch subscription b runs.
ProfileEose(b) ==
  /\ CanDeliver(b)
  /\ ~ subs[b].eose
  /\ subs[b].owner = "profiles"
  /\ Commit([State EXCEPT !.subs[b].eose = TRUE, !.isLoading = FALSE],
            "profileEose", FALSE)

\* The 10 s fallback timer set with the batch B fires. Timers set with the
\* same authors run the same callback and are kept as one.
BatchCeiling(B) ==
  /\ B \in ceilingTimers
  /\ Commit([State EXCEPT !.ceilingTimers = ceilingTimers \ {B},
                          !.isLoading = FALSE],
            "batchCeiling", FALSE)

\* PROFILE_CACHE_TTL passes since the record of author k was stored.
ProfileExpires(k) ==
  /\ profiles[k].cached /\ profiles[k].fresh
  /\ Commit([State EXCEPT !.profiles[k].fresh = FALSE], "profileExpires", FALSE)

Init ==
  /\ ndk = InitState.ndk
  /\ isConnected = InitState.isConnected
  /\ connectionError = InitState.connectionError
  /\ relayUrl = InitState.relayUrl
  /\ relayMetadata = InitState.relayMetadata
  /\ connectionStatus = InitState.connectionStatus
  /\ activeSubscriptions = InitState.activeSubscriptions
  /\ connectionTimeoutRef = InitState.connectionTimeoutRef
  /\ metadataAbortController = InitState.metadataAbortController
  /\ transport = InitState.transport
  /\ subs = InitState.subs
  /\ eventsMap = InitState.eventsMap
  /\ loading = InitState.loading
  /\ error = InitState.error
  /\ subscriptionRef = InitState.subscriptionRef
  /\ loadTimers = InitState.loadTimers
  /\ profiles = InitState.profiles
  /\ subscription = InitState.subscription
  /\ requestedPubkeys = InitState.requestedPubkeys
  /\ pendingPubkeys = InitState.pendingPubkeys
  /\ activeBatchesRef = InitState.activeBatchesRef
  /\ batchTimeoutRef = InitState.batchTimeoutRef
  /\ filter = InitState.filter
  /\ discovery = InitState.discovery
  /\ chunkTimers = InitState.chunkTimers
  /\ isLoading = InitState.isLoading
  /\ ceilingTimers = InitState.ceilingTimers
  /\ last = [op |-> "init", flag |-> FALSE]

Next ==
  \/ \E u \in Urls : ApiConnect(u)
  \/ ApiDisconnect
  \/ \E u \in Urls : HandleConnect(u)
  \/ \E i \in 1..MaxNdk, thr \in ThrowPoints : TransportConnect(i, thr)
  \/ \E i \in 1..MaxNdk : TransportDisconnect(i)
  \/ \E i \in 1..MaxNdk : HandshakeReject(i)
  \/ ConnectionTimeout
  \/ \E b \in 1..MaxSubs, e \in EventPool : EventDeliver(b, e)
  \/ \E b \in 1..MaxSubs : Eose(b)
  \/ \E b \in 1..MaxSubs : LoadingTimeout(b)
  \/ \E thr \in ThrowPoints : Refetch(thr)

Spec == Init /\ [][Next]_vars


\* The connection, the metadata fetch and the event stream, without the
\* loading indicator's steps.
NextMeta ==
  \/ \E u \in Urls : ApiConnect(u)
  \/ ApiDisconnect
  \/ \E u \in Urls : HandleConnect(u)
  \/ \E i \in 1..MaxNdk : TransportConnect(i, "none")
  \/ \E i \in 1..MaxNdk : TransportDisconnect(i)
  \/ \E i \in 1..MaxNdk : HandshakeReject(i)
  \/ ConnectionTimeout
  \/ \E i \in 1..MaxNdk, ok \in BOOLEAN : MetadataResolve(i, ok)
  \/ \E b \in 1..MaxSubs, e \in EventPool : EventDeliver(b, e)

SpecMeta == Init /\ [][NextMeta]_vars


\* =================================================================== claims
\* Everything of the program state but the history variable.
pvars == << ndk, isConnected, connectionError, relayUrl, relayMetadata,
            connectionStatus, activeSubscriptions, connectionTimeoutRef,
            metadataAbortController, transport, subs, eventsMap, loading,
            error, subscriptionRef, loadTimers, profiles, subscription,
            requestedPubkeys, pendingPubkeys, activeBatchesRef,
            batchTimeoutRef, filter, discovery, chunkTimers, isLoading,
            ceilingTimers >>

UniqueKeys(m) == \A i, j \in 1..Len(m) : m[i].key = m[j].key => i = j

\* C1: the delivery of an event whose identifier is already stored leaves the
\* cache as it was, and the cache never holds two events with one identifier.
C1_InsertIdempotent ==
  [][ /\ (last'.op = "event" /\ last'.flag) => eventsMap' = eventsMap
      /\ UniqueKeys(eventsMap') ]_vars

\* C1 witness: an identifier that was already stored has been delivered again.
C1_Witness == last.op = "event" /\ last.flag /\ Len(eventsMap) >= 1

\* C5 (as claimed): once the connection to the current address is
\* established, the cache holds only events served by that address.
C5_OnlyCurrentAddress ==
  (connectionStatus = "connected" /\ ndk # 0 /\ transport[ndk].st = "connected")
     => \A i \in 1..Len(eventsMap) : eventsMap[i].ev.relay = relayUrl

AllowedEdges ==
  { <<"disconnected", "connecting">>, <<"connecting", "connected">>,
    <<"connecting", "error">>, <<"connected", "disconnected">> }

\* C6 (as claimed): connectionStatus changes only along the listed edges, to
\* connecting by a connect call, or to disconnected by a disconnect call.
C6_StatusEdges ==
  [][ connectionStatus' # connectionStatus =>
        \/ <<connectionStatus, connectionStatus'>> \in AllowedEdges
        \/ last'.op \in {"connect", "handleConnect"} /\ connectionStatus' = "connecting"
        \/ last'.op \in {"disconnect", "handleConnect"} /\ connectionStatus' = "disconnected"
    ]_vars

C8_TeardownReportIgnored ==
  [][ (last'.op = "relay:disconnect" /\ last'.flag /\ connectionStatus = "connecting")
        => connectionStatus' = "connecting" ]_vars

\* C9 (as claimed): a connect request with an address that is not a
\* well-formed ws:// or wss:// URL changes nothing.
C9_InvalidAddressNoChange ==
  [][ (last'.op \in {"connect", "handleConnect"} /\ last'.flag)
        => UNCHANGED pvars ]_vars

\* The relay connector checks the address before it calls connect():
\* handleConnect with an address that is not a well-formed ws:// or wss:// URL
\* changes nothing.
HandleConnectValidates ==
  [][ (last'.op = "handleConnect" /\ last'.flag) => UNCHANGED pvars ]_vars

\* disconnect() followed by the effects it triggers.
AfterDisconnect(s) ==
  Normalize(BatchEffect(s, IsConnectedEffect(s, disconnect(s), "none"), FALSE))

\* C10: after disconnect() no subscription is tracked or running, the
\* transport is not connected, the status is disconnected with isConnected
\* false and error, relayUrl and metadata cleared, the cache is empty, and a
\* second disconnect() changes nothing.
C10_DisconnectIdempotent ==
  last.op = "disconnect" =>
    /\ activeSubscriptions = << >>
    /\ \A b \in 1..MaxSubs : subs[b].st \notin {"live", "idle"}
    /\ \A i \in 1..MaxNdk : transport[i].st \notin {"connecting", "connected"}
    /\ ndk = 0 /\ ~ isConnected /\ connectionStatus = "disconnected"
    /\ connectionError = "null" /\ relayUrl = 0 /\ relayMetadata = 0
    /\ ~ connectionTimeoutRef
    /\ eventsMap = << >>
    /\ AfterDisconnect(State) = State

\* C10 witness: disconnect() has run on a connected session that held events.
C10_Witness == last.op = "disconnect" /\ last.flag

\* C14: every running subscription of the event consumer is the one it holds
\* in subscriptionRef and runs on the current instance, so at most one
\* subscription delivers events to the cache.
C14_OneEventSubscription ==
  \A b \in DOMAIN subs :
    (subs[b].owner = "events" /\ subs[b].st = "live")
      => (b = subscriptionRef /\ subs[b].ndk = ndk)

\* C14 witness: a refetch has replaced a subscription that had delivered
\* events by a new running one.
C14_Witness ==
  /\ last.op = "refetch"
  /\ subscriptionRef # 0 /\ subs[subscriptionRef].st = "live"
  /\ eventsMap # << >>

\* C15: when the subscribe call of a refetch throws (in ndk.subscribe or in
\* subscription.start), the consumer holds no handle, records the error
\* 'Failed to create subscription' with loading false, and connectionStatus,
\* connectionError and isConnected are unchanged.
C15_SubscribeThrowIsTransient ==
  [][ (last'.op = "refetch" /\ last'.flag)
        => /\ subscriptionRef' = 0
           /\ error' = "Failed to create subscription"
           /\ ~ loading'
           /\ connectionStatus' = connectionStatus
           /\ connectionError' = connectionError
           /\ isConnected' = isConnected ]_vars

\* C15 witness: a refetch whose subscribe call threw, on a connected session.
C15_Witness ==
  /\ last.op = "refetch" /\ last.flag
  /\ connectionStatus = "connected"
  /\ error = "Failed to create subscription"


\* The connection and the profile resolver.
NextProfiles ==
  \/ \E u \in Urls : HandleConnect(u)
  \/ \E i \in 1..MaxNdk : TransportConnect(i, "none")
  \/ \E i \in 1..MaxNdk : TransportDisconnect(i)
  \/ \E P \in SUBSET Pubkeys : RequestProfiles(P)
  \/ BatchTimeout("none")
  \/ \E b \in 1..MaxSubs, e \in ProfilePool : ProfileEventDeliver(b, e)
  \/ \E k \in Pubkeys : ProfileExpires(k)

SpecProfiles == Init /\ [][NextProfiles]_vars

\* C4 (as claimed): the content of a cached profile record is replaced only
\* by a record parsed from an event with a strictly greater creation timestamp.
C4_NewestProfileWins ==
  [][ \A k \in Pubkeys :
        (profiles[k].cached /\ last'.op = "profileEvent"
           /\ << profiles'[k].name, profiles'[k].picture, profiles'[k].src >>
                # << profiles[k].name, profiles[k].picture, profiles[k].src >>)
          => profiles'[k].src > profiles[k].src ]_vars


\* C11 (as claimed): a teardown (handleConnect with a valid address while an
\* instance exists: disconnect() when connected, connect() with its cleanup
\* otherwise) leaves no cached profile, no pending author and no requested or
\* in-flight author.
C11_ProfileStateCleared ==
  [][ (last'.op = "handleConnect" /\ ~ last'.flag /\ ndk # 0)
        => /\ \A k \in Pubkeys : ~ profiles'[k].cached
           /\ pendingPubkeys' = {}
           /\ requestedPubkeys' = {}
           /\ activeBatchesRef' = {} ]_vars


\* The cache under a long stream: the event subscription of a connected
\* session delivers events with identifiers and creation timestamps 1, 2, ...
\* in that order, MaxFill + 1 of them, with redeliveries in between.
MaxFill == 1000

ConnectedSession ==
  LET s1 == connect(InitState, 1)
      s2 == onRelayConnect([s1 EXCEPT !.transport[1].st = "connected"])
  IN Normalize(IsConnectedEffect(s1, s2, "none"))

InitCache ==
  LET s == ConnectedSession IN
  /\ ndk = s.ndk
  /\ isConnected = s.isConnected
  /\ connectionError = s.connectionError
  /\ relayUrl = s.relayUrl
  /\ relayMetadata = s.relayMetadata
  /\ connectionStatus = s.connectionStatus
  /\ activeSubscriptions = s.activeSubscriptions
  /\ connectionTimeoutRef = s.connectionTimeoutRef
  /\ metadataAbortController = s.metadataAbortController
  /\ transport = s.transport
  /\ subs = s.subs
  /\ eventsMap = s.eventsMap
  /\ loading = s.loading
  /\ error = s.error
  /\ subscriptionRef = s.subscriptionRef
  /\ loadTimers = s.loadTimers
  /\ profiles = s.profiles
  /\ subscription = s.subscription
  /\ requestedPubkeys = s.requestedPubkeys
  /\ pendingPubkeys = s.pendingPubkeys
  /\ activeBatchesRef = s.activeBatchesRef
  /\ batchTimeoutRef = s.batchTimeoutRef
  /\ filter = s.filter
  /\ discovery = s.discovery
  /\ chunkTimers = s.chunkTimers
  /\ isLoading = s.isLoading
  /\ ceilingTimers = s.ceilingTimers
  /\ last = [op |-> "relay:connect", flag |-> FALSE]

\* The relay delivers the next event of the stream, or delivers again the
\* oldest or the newest event it has delivered; the stream ends after
\* MaxFill + 1 events.
StreamDeliver(b) ==
  /\ Len(eventsMap) <= MaxFill
  /\ \E n \in {1, Len(eventsMap), Len(eventsMap) + 1} :
        /\ n >= 1
        /\ EventDeliver(b, StreamEvent(n))

NextCache == \E b \in 1..MaxSubs : StreamDeliver(b)

SpecCache == InitCache /\ [][NextCache]_vars

\* C2 (as claimed): the cache never holds more than MAX_EVENTS events.
C2_CacheBounded == Len(eventsMap) <= MAX_EVENTS

\* C3 (as claimed): once MAX_EVENTS + 1 events with strictly increasing
\* timestamps have been inserted, the event with the smallest timestamp is
\* absent and all the others are present.
C3_OldestEvicted ==
  HasKey(eventsMap, MAX_EVENTS + 1) =>
    /\ ~ HasKey(eventsMap, 1)
    /\ \A n \in 2..(MAX_EVENTS + 1) : HasKey(eventsMap, n)


\* ------------------------------------------------- consumers of subscribe()
\* The variables start as in s.
StartIn(s, op) ==
  /\ ndk = s.ndk
  /\ isConnected = s.isConnected
  /\ connectionError = s.connectionError
  /\ relayUrl = s.relayUrl
  /\ relayMetadata = s.relayMetadata
  /\ connectionStatus = s.connectionStatus
  /\ activeSubscriptions = s.activeSubscriptions
  /\ connectionTimeoutRef = s.connectionTimeoutRef
  /\ metadataAbortController = s.metadataAbortController
  /\ transport = s.transport
  /\ subs = s.subs
  /\ eventsMap = s.eventsMap
  /\ loading = s.loading
  /\ error = s.error
  /\ subscriptionRef = s.subscriptionRef
  /\ loadTimers = s.loadTimers
  /\ profiles = s.profiles
  /\ subscription = s.subscription
  /\ requestedPubkeys = s.requestedPubkeys
  /\ pendingPubkeys = s.pendingPubkeys
  /\ activeBatchesRef = s.activeBatchesRef
  /\ batchTimeoutRef = s.batchTimeoutRef
  /\ filter = s.filter
  /\ discovery = s.discovery
  /\ chunkTimers = s.chunkTimers
  /\ isLoading = s.isLoading
  /\ ceilingTimers = s.ceilingTimers
  /\ last = [op |-> op, flag |-> FALSE]

\* Subscription objects that can be alive at once when consumers of the
\* context subscribe on their own: one more than the limit.
SubSlots == MAX_SUBSCRIPTIONS + 1

InitSubs ==
  StartIn([InitState EXCEPT !.subs = [i \in 1..SubSlots |-> NoSub]], "init")

\* A consumer of the context calls subscribe(filter, callback) and keeps the
\* handle.
ApiSubscribe(thr) ==
  /\ thr \in ThrowPoints
  /\ LET r == Subscribe(State, "api", thr) IN
       /\ r.h # -1
       /\ Commit(r.s, "subscribe", Len(activeSubscriptions) >= MAX_SUBSCRIPTIONS)

\* A consumer calls stop() on the oldest or the newest handle it keeps.
HandleStop(b) ==
  /\ activeSubscriptions # << >>
  /\ b \in {Head(activeSubscriptions),
            activeSubscriptions[Len(activeSubscriptions)]}
  /\ subs[b].owner = "api"
  /\ Commit(StopSub(State, b), "stop", FALSE)

NextSubs ==
  \/ ApiConnect(1)
  \/ ApiDisconnect
  \/ \E i \in 1..MaxNdk : TransportConnect(i, "none")
  \/ \E thr \in {"none", "subscribe"} : ApiSubscribe(thr)
  \/ \E b \in DOMAIN subs : HandleStop(b)

SpecSubs == InitSubs /\ [][NextSubs]_vars

C13_SubscribeRequiresConnected ==
  [][ (last'.op = "subscribe" /\ connectionStatus # "connected")
        => /\ activeSubscriptions' = activeSubscriptions
           /\ subs' = subs ]_vars

\* ------------------------------------------------ the view of useEvents
\* String.prototype.toLowerCase on the letters the model uses.
toLowerCase(t) ==
  [i \in 1..Len(t) |->
     CASE t[i] = "A" -> "a" [] t[i] = "B" -> "b" [] t[i] = "H" -> "h"
       [] OTHER -> t[i]]

\* String.prototype.includes
includes(t, term) ==
  \E i \in 0..(Len(t) - Len(term)) : SubSeq(t, i + 1, i + Len(term)) = term

\* Array.prototype.includes
arrayIncludes(q, x) == \E i \in 1..Len(q) : q[i] = x

\* Array.prototype.sort with (a, b) => b.created_at - a.created_at: stable.
RECURSIVE sortByCreatedAtDesc(_)
sortByCreatedAtDesc(q) ==
  IF q = << >> THEN << >>
  ELSE LET r == sortByCreatedAtDesc(SubSeq(q, 1, Len(q) - 1))
           e == q[Len(q)]
           k == Cardinality({ i \in 1..Len(r) : r[i].created_at >= e.created_at })
       IN SubSeq(r, 1, k) \o << e >> \o SubSeq(r, k + 1, Len(r))

\* The events without the sort: Array.from(eventsMap.values()).
eventsInArrivalOrder(m) == [i \in 1..Len(m) |-> m[i].ev]

\* events: Array.from(eventsMap.values()).sort(...)
events(m) == sortByCreatedAtDesc([i \in 1..Len(m) |-> m[i].ev])

\* The callback of events.filter in filteredEvents.
passesFilter(e, f) ==
  /\ (f.authors.def /\ Len(f.authors.v) > 0) => arrayIncludes(f.authors.v, e.pubkey)
  /\ (f.kinds.def /\ Len(f.kinds.v) > 0) => arrayIncludes(f.kinds.v, e.kind)
  /\ (f.dateRange.def /\ f.dateRange.from # 0)
        => ~ (e.created_at < f.dateRange.from \div 1000)
  /\ (f.dateRange.def /\ f.dateRange.to # 0)
        => ~ (e.created_at > f.dateRange.to \div 1000)
  /\ (f.search.def /\ f.search.v # << >>)
        => \/ includes(toLowerCase(e.content), toLowerCase(f.search.v))
           \/ includes(toLowerCase(e.pubkey), toLowerCase(f.search.v))

\* filteredEvents with the bounds of the date range compared strictly.
filteredEventsStrictBounds(m, f) ==
  SelectSeq(events(m), LAMBDA e :
    /\ passesFilter(e, f)
    /\ (f.dateRange.def /\ f.dateRange.from # 0)
          => e.created_at > f.dateRange.from \div 1000
    /\ (f.dateRange.def /\ f.dateRange.to # 0)
          => e.created_at < f.dateRange.to \div 1000)

\* filteredEvents
filteredEvents(m, f) ==
  IF /\ ~ f.authors.def /\ ~ f.kinds.def /\ ~ f.dateRange.def
     /\ ~ (f.search.def /\ f.search.v # << >>)
    THEN events(m)
    ELSE SelectSeq(events(m), LAMBDA e : passesFilter(e, f))

\* updateFilter(newFilter) with newFilter = { [k]: v }
updateFilter(s, k, v) == [s EXCEPT !.filter[k] = v]

\* The display filter over a connected session: the relay delivers the events
\* of FilterPool in any order while the consumer changes one criterion at a
\* time.  Author identifiers and contents are strings of letters; kind 0 is
\* a profile event; two events share a creation timestamp.
FilterPool ==
  { [id |-> 1, created_at |-> 1, pubkey |-> <<"a","b">>, kind |-> 1,
     content |-> <<"H","i">>, relay |-> 1],
    [id |-> 2, created_at |-> 2, pubkey |-> <<"c">>, kind |-> 0,
     content |-> <<"b">>, relay |-> 1],
    [id |-> 3, created_at |-> 2, pubkey |-> <<"a","b">>, kind |-> 1,
     content |-> << >>, relay |-> 1] }

\* Values a caller of updateFilter passes for each field of EventFilter;
\* the bounds of a range are Dates in milliseconds, 0 for a missing bound.
AuthorChoices ==
  { Undefined, [def |-> TRUE, v |-> << >>], [def |-> TRUE, v |-> << <<"c">> >>] }

KindChoices ==
  { Undefined, [def |-> TRUE, v |-> << >>], [def |-> TRUE, v |-> << 1 >>] }

DateRangeChoices ==
  { NoDateRange,
    [def |-> TRUE, from |-> 1500, to |-> 0],
    [def |-> TRUE, from |-> 0, to |-> 1500],
    [def |-> TRUE, from |-> 2000, to |-> 2000] }

SearchChoices ==
  { Undefined, [def |-> TRUE, v |-> << >>], [def |-> TRUE, v |-> <<"h">>],
    [def |-> TRUE, v |-> <<"B">>] }

InitFilter == StartIn(ConnectedSession, "relay:connect")

\* A consumer calls updateFilter({ [k]: v }).
UpdateFilter(k, v) ==
  /\ k \in {"authors", "kinds", "dateRange", "search"}
  /\ Commit(updateFilter(State, k, v), "updateFilter", FALSE)

\* The relay delivers an event of FilterPool.
FilterDeliver(b, e) ==
  /\ e \in FilterPool
  /\ EventDeliver(b, e)

\* clearEvents
clearEvents(s) == [s EXCEPT !.eventsMap = << >>]

\* A consumer calls clearEvents().
ClearEvents ==
  /\ eventsMap # << >>
  /\ Commit(clearEvents(State), "clearEvents", FALSE)

NextFilter ==
  \/ \E b \in 1..MaxSubs, e \in FilterPool : FilterDeliver(b, e)
  \/ ClearEvents
  \/ \E v \in AuthorChoices : UpdateFilter("authors", v)
  \/ \E v \in KindChoices : UpdateFilter("kinds", v)
  \/ \E v \in DateRangeChoices : UpdateFilter("dateRange", v)
  \/ \E v \in SearchChoices : UpdateFilter("search", v)

SpecFilter == InitFilter /\ [][NextFilter]_vars

\* The elements of a sequence.
Range(q) == { q[i] : i \in 1..Len(q) }

\* The cached events.
Cached == { eventsMap[i].ev : i \in 1..Len(eventsMap) }

\* term occurs in t when the case of letters is ignored.
OccursIgnoringCase(term, t) ==
  \E i \in 0..(Len(t) - Len(term)) :
     \A j \in 1..Len(term) :
        toLowerCase(<< t[i + j] >>) = toLowerCase(<< term[j] >>)

\* C16 (as claimed): the filtered view is the set of cached events that
\* satisfy every criterion the filter provides: the author is one of the
\* authors, the kind is one of the kinds, from <= created_at <= to, and the
\* search term occurs, case ignored, in the content or in the author
\* identifier; a criterion the filter does not provide constrains nothing.
C16_FilteredViewAsClaimed ==
  Range(filteredEvents(eventsMap, filter)) =
    { e \in Cached :
        /\ filter.authors.def => e.pubkey \in Range(filter.authors.v)
        /\ filter.kinds.def => e.kind \in Range(filter.kinds.v)
        /\ (filter.dateRange.def /\ filter.dateRange.from # 0)
              => filter.dateRange.from <= e.created_at * 1000
        /\ (filter.dateRange.def /\ filter.dateRange.to # 0)
              => e.created_at * 1000 <= filter.dateRange.to
        /\ filter.search.def
              => \/ OccursIgnoringCase(filter.search.v, e.content)
                 \/ OccursIgnoringCase(filter.search.v, e.pubkey) }

\* C16 (amended): the filtered view is the set of cached events that
\* satisfy every criterion the filter provides, where an empty list of
\* authors or of kinds counts as a criterion not provided and a bound of the
\* range is taken in whole seconds, its milliseconds dropped.
C16_FilteredView ==
  Range(filteredEvents(eventsMap, filter)) =
    { e \in Cached :
        /\ (filter.authors.def /\ filter.authors.v # << >>)
              => e.pubkey \in Range(filter.authors.v)
        /\ (filter.kinds.def /\ filter.kinds.v # << >>)
              => e.kind \in Range(filter.kinds.v)
        /\ (filter.dateRange.def /\ filter.dateRange.from # 0)
              => filter.dateRange.from \div 1000 <= e.created_at
        /\ (filter.dateRange.def /\ filter.dateRange.to # 0)
              => e.created_at <= filter.dateRange.to \div 1000
        /\ filter.search.def
              => \/ OccursIgnoringCase(filter.search.v, e.content)
                 \/ OccursIgnoringCase(filter.search.v, e.pubkey) }

\* Several criteria are provided, one cached event passes them and one does
\* not; the event that passes sits on the lower bound of the range.
C16_Witness ==
  /\ last.op = "updateFilter"
  /\ filter.dateRange.def /\ filter.dateRange.from = 2000
  /\ filter.kinds.def /\ filter.kinds.v # << >>
  /\ filter.search.def /\ filter.search.v = <<"B">>
  /\ Len(filteredEvents(eventsMap, filter)) = 1
  /\ Len(eventsMap) = 3

\* C17: the sequence exposed to the UI is ordered newest first: no event
\* precedes an event with a greater creation timestamp, whatever the order
\* of arrival and whatever the filter.
C17_NewestFirst ==
  LET view == filteredEvents(eventsMap, filter)
  IN \A i, j \in 1..Len(view) :
        i < j => view[i].created_at >= view[j].created_at

\* The oldest event arrived first, a filter is applied and the view shows
\* the oldest event and a newer one.
C17_Witness ==
  /\ Len(eventsMap) >= 2
  /\ eventsMap[1].ev.created_at < eventsMap[2].ev.created_at
  /\ filter.search.def /\ filter.search.v = <<"B">>
  /\ LET view == filteredEvents(eventsMap, filter)
     IN /\ Len(view) >= 2
        /\ view[Len(view)] = eventsMap[1].ev

\* ------------------------------------------------ backfill of a connection
\* The user connects, the relay sends the stored events of its stream in
\* order (event n has identifier n), possibly sending the first one again,
\* and then the end of stored events; the user may disconnect and connect
\* again.  At most MaxBackfill stored events.
MaxBackfill == 3

\* The event callback of subscription b runs for a stored event.
BackfillDeliver(b) ==
  /\ CanDeliver(b)
  /\ subs[b].owner = "events"
  /\ ~ subs[b].eose
  /\ \E n \in {1, subs[b].sent + 1} :
        /\ n <= MaxBackfill
        /\ Commit([State EXCEPT
                     !.eventsMap = Insert(eventsMap, StreamEvent(n)),
                     !.subs[b].sent = Max({subs[b].sent, n})],
                  "event", HasKey(eventsMap, n))

NextBackfill ==
  \/ HandleConnect(1)
  \/ \E i \in 1..MaxNdk, thr \in ThrowPoints : TransportConnect(i, thr)
  \/ \E i \in 1..MaxNdk : TransportDisconnect(i)
  \/ \E b \in 1..MaxSubs : BackfillDeliver(b)
  \/ \E b \in 1..MaxSubs : Eose(b)
  \/ \E b \in 1..MaxSubs : LoadingTimeout(b)

SpecBackfill == Init /\ [][NextBackfill]_vars

C19_RefetchClears ==
  [][ (last'.op \in {"disconnect", "refetch"}) => eventsMap' = << >> ]_vars

\* The part of C19 about disconnect alone.
DisconnectClears ==
  [][ last'.op = "disconnect" => eventsMap' = << >> ]_vars

\* ------------------------------------------------------- relay discovery
\* NIP66RelayDiscovery and the hook that shows its progress.  One run is
\* followed at a time; the relay sends at most MaxReports reports in a run.
MaxReports == 2

\* The authors of the monitor events a fetch can return.
MonitorFinds == { {}, {"m1"} }

\* initialize(); thr = "ndk": the NDK constructor throws.
initialize(d, thr) ==
  IF d.isInitialized THEN d
  ELSE IF thr = "ndk" THEN d
  ELSE [d EXCEPT !.discoveryNdk = TRUE, !.monitorManager = TRUE,
                 !.isInitialized = TRUE]

\* discoverRelays(onProgressUpdate) up to its return: the seed, the first
\* progress update, initialize() and the start of startProgressiveDiscovery,
\* which works on a copy of the state object that is returned.
discoverRelays(d, thr) ==
  LET st0 == [relays |-> convertPopularRelaysToNIP66, monitors |-> {},
              loading |-> TRUE, error |-> "null"]
      d1 == [d EXCEPT !.hookState = st0]
      d2 == initialize(d1, thr)
  IN IF ~ d2.discoveryNdk \/ ~ d2.monitorManager
       THEN [d2 EXCEPT !.returned = [def |-> TRUE,
                                     v |-> [st0 EXCEPT !.loading = FALSE]]]
       ELSE [d2 EXCEPT !.returned = [def |-> TRUE, v |-> st0],
                       !.state = st0, !.relayReports = << >>,
                       !.eventCount = 0, !.phase = "monitors",
                       !.timer = FALSE]

\* calculateReliability giving the baseline to every monitor observed.
calculateReliabilityBaseline(m, p) == 5

\* RelayMonitorManager.calculateReliability, in tenths
calculateReliability(m, p) ==
  IF m[p] # NoMonitor THEN Min({m[p] + 1, 10}) ELSE 5

\* RelayMonitorManager.updateMonitorReliability, delta in tenths
updateMonitorReliability(m, p, delta) ==
  IF m[p] # NoMonitor
    THEN [m EXCEPT ![p] = Max({0, Min({10, m[p] + delta})})]
    ELSE m

\* RelayMonitorManager.discoverMonitors: found are the authors of the
\* monitor events fetched; throws says that fetchEvents throws.
discoverMonitors(d, found, throws) ==
  IF d.bootstrap # "up" \/ throws THEN d.monitors
  ELSE [p \in MonitorKeys |->
          IF p \in found THEN calculateReliability(d.monitors, p)
          ELSE d.monitors[p]]

\* startProgressiveDiscovery from the result of discoverMonitors to the
\* subscription; thr = "subscribe": ndk.subscribe throws.
onMonitorsDiscovered(d, found, thr) ==
  LET m == discoverMonitors(d, found, thr = "fetch")
      d1 == [d EXCEPT !.monitors = m,
                      !.state.monitors = { p \in MonitorKeys : m[p] # NoMonitor }]
      failed == [d1.state EXCEPT !.error = "Discovery failed", !.loading = FALSE]
  IN IF thr = "subscribe"
       THEN [d1 EXCEPT !.state = failed, !.hookState = failed,
                       !.phase = "finished"]
       ELSE [d1 EXCEPT !.phase = "subscribed", !.timer = TRUE]

\* isValidRelayUrl of the address in the d tag
isValidRelayUrl(u) == u # "bad"

\* aggregateRelayReports: status and confidence of a candidate
aggregateRelayReports(u, reports) ==
  LET onlineReports == Cardinality({ i \in 1..Len(reports) : reports[i].recent })
      totalMonitors == Cardinality({ reports[i].pubkey : i \in 1..Len(reports) })
      confidence == IF totalMonitors > 0
                      THEN (onlineReports * ConfidenceUnit) \div Max({totalMonitors, 3})
                      ELSE 0
  IN [url |-> u,
      status |-> IF confidence > ConfidenceUnit \div 2 THEN "online"
                 ELSE IF confidence > ConfidenceUnit \div 5 THEN "unknown"
                 ELSE "offline",
      confidence |-> confidence]

\* The discovered relays left in the order of their first report.
sortByConfidenceDescSkipped(q) == q

\* discoveredRelays.sort((a, b) => b.confidence - a.confidence): stable.
RECURSIVE sortByConfidenceDesc(_)
sortByConfidenceDesc(q) ==
  IF q = << >> THEN << >>
  ELSE LET r == sortByConfidenceDesc(SubSeq(q, 1, Len(q) - 1))
           e == q[Len(q)]
           k == Cardinality({ i \in 1..Len(r) : r[i].confidence >= e.confidence })
       IN SubSeq(r, 1, k) \o << e >> \o SubSeq(r, k + 1, Len(r))

\* updateDiscoveredRelays without the hardcodedUrls test.
updateDiscoveredRelaysNoCuratedTest(d) ==
  LET hardcodedRelays == convertPopularRelaysToNIP66
      aggregated == [i \in 1..Len(d.relayReports) |->
                       aggregateRelayReports(d.relayReports[i].url,
                                             d.relayReports[i].reports)]
      discoveredRelays == SelectSeq(aggregated,
                            LAMBDA r : r.confidence > ConfidenceUnit \div 5)
      st == [d.state EXCEPT
               !.relays = hardcodedRelays \o sortByConfidenceDesc(discoveredRelays)]
  IN [d EXCEPT !.state = st, !.hookState = st,
               !.relayCache = @ \cup { discoveredRelays[i].url :
                                         i \in 1..Len(discoveredRelays) }]

\* updateDiscoveredRelays
updateDiscoveredRelays(d) ==
  LET hardcodedRelays == convertPopularRelaysToNIP66
      hardcodedUrls == { hardcodedRelays[i].url : i \in 1..Len(hardcodedRelays) }
      candidates == SelectSeq(d.relayReports, LAMBDA r : r.url \notin hardcodedUrls)
      aggregated == [i \in 1..Len(candidates) |->
                       aggregateRelayReports(candidates[i].url, candidates[i].reports)]
      discoveredRelays == SelectSeq(aggregated,
                            LAMBDA r : r.confidence > ConfidenceUnit \div 5)
      st == [d.state EXCEPT
               !.relays = hardcodedRelays \o sortByConfidenceDesc(discoveredRelays)]
  IN [d EXCEPT !.state = st, !.hookState = st,
               !.relayCache = @ \cup { discoveredRelays[i].url :
                                         i \in 1..Len(discoveredRelays) }]

\* relayReports.get(relayUrl).push(event), after relayReports.set if needed
AddReport(q, u, r) ==
  IF \E i \in 1..Len(q) : q[i].url = u
    THEN [i \in 1..Len(q) |->
            IF q[i].url = u THEN [q[i] EXCEPT !.reports = Append(@, r)] ELSE q[i]]
    ELSE Append(q, [url |-> u, reports |-> << r >>])

\* The event listener of the report subscription; due says that more than
\* two seconds have passed since the last update.
onReportEvent(d, u, p, recent, due) ==
  LET n == d.eventCount + 1
      d1 == [d EXCEPT !.eventCount = n]
  IN IF ~ isValidRelayUrl(u) THEN d1
     ELSE LET d2 == [d1 EXCEPT !.relayReports =
                       AddReport(@, u, [pubkey |-> p, recent |-> recent])]
          IN IF n % 5 = 0 \/ due THEN updateDiscoveredRelays(d2) ELSE d2

\* The eose listener of the report subscription.  The 15 s timer stays
\* pending in the code; it finds loading false and does nothing.
onDiscoveryEose(d) ==
  LET d1 == updateDiscoveredRelays(d)
      st == [d1.state EXCEPT !.loading = FALSE]
  IN [d1 EXCEPT !.state = st, !.hookState = st, !.phase = "finished",
                !.timer = FALSE]

\* A 15 s timeout that only forgets its timer.
onDiscoveryTimeoutIdle(d) == [d EXCEPT !.timer = FALSE]

\* The 15 s timeout of the run.
onDiscoveryTimeout(d) ==
  IF d.state.loading
    THEN LET st == [d.state EXCEPT !.loading = FALSE]
         IN [d EXCEPT !.state = st, !.hookState = st, !.phase = "finished",
                      !.timer = FALSE]
    ELSE [d EXCEPT !.timer = FALSE]

\* The hook calls discoverRelays.
DiscoverRelays(thr) ==
  /\ discovery.phase \in {"none", "finished"}
  /\ thr \in {"none", "ndk"}
  /\ Commit([State EXCEPT !.discovery =
                [discoverRelays(discovery, thr) EXCEPT !.refresh = NoRefresh]],
            "discoverRelays", thr = "ndk" /\ ~ discovery.isInitialized)

\* A bootstrap relay connects.
BootstrapConnect ==
  /\ discovery.isInitialized
  /\ discovery.bootstrap = "down"
  /\ Commit([State EXCEPT !.discovery.bootstrap = "up"], "bootstrap", FALSE)

\* discoverMonitors settles and the run goes on to its subscription.
MonitorsDiscovered(found, thr) ==
  /\ discovery.phase = "monitors"
  /\ thr \in {"none", "fetch", "subscribe"}
  /\ discovery.bootstrap = "down" => (found = {} /\ thr # "fetch")
  /\ Commit([State EXCEPT !.discovery = onMonitorsDiscovered(discovery, found, thr)],
            "monitors", thr = "subscribe")

\* A bootstrap relay sends a report.
ReportEvent(u, p, recent, due) ==
  /\ discovery.phase = "subscribed"
  /\ discovery.bootstrap = "up"
  /\ discovery.eventCount < MaxReports
  /\ Commit([State EXCEPT !.discovery = onReportEvent(discovery, u, p, recent, due)],
            "report", due)

\* The report subscription reports the end of stored events.
DiscoveryEose ==
  /\ discovery.phase = "subscribed"
  /\ Commit([State EXCEPT !.discovery = onDiscoveryEose(discovery)],
            "discovery:eose", FALSE)

\* The 15 s timer of the run fires.
DiscoveryTimeout ==
  /\ discovery.timer
  /\ Commit([State EXCEPT !.discovery = onDiscoveryTimeout(discovery)],
            "discovery:timeout", FALSE)

NextDiscovery ==
  \/ \E thr \in {"none", "ndk"} : DiscoverRelays(thr)
  \/ BootstrapConnect
  \/ \E found \in MonitorFinds, thr \in {"none", "fetch", "subscribe"} :
        MonitorsDiscovered(found, thr)
  \/ \E u \in ReportUrls, p \in MonitorKeys, recent \in BOOLEAN, due \in BOOLEAN :
        ReportEvent(u, p, recent, due)
  \/ DiscoveryEose
  \/ DiscoveryTimeout

SpecDiscovery == Init /\ [][NextDiscovery]_vars

\* C20 (as claimed): while no network call has succeeded, the state that
\* discoverRelays() has returned holds exactly the curated list at its
\* baseline confidence and has loading false.
C20_DiscoveryFloor ==
  (discovery.returned.def /\ discovery.bootstrap = "down") =>
     /\ discovery.returned.v.relays = convertPopularRelaysToNIP66
     /\ ~ discovery.returned.v.loading

\* -------------------------------------------------- aggregation of reports
\* A run whose report subscription is open on connected bootstrap relays:
\* the relays send up to MaxWindow reports about two candidates that are not
\* curated, from either monitor, inside or outside the 24 h window.
MaxWindow == 4

CandidateUrls == {"d1", "d2"}

SubscribedRun ==
  LET d1 == discoverRelays(NoDiscovery, "none")
      d2 == [d1 EXCEPT !.bootstrap = "up"]
  IN [InitState EXCEPT !.discovery = onMonitorsDiscovered(d2, {}, "none")]

InitAggregate == StartIn(SubscribedRun, "monitors")

\* A bootstrap relay sends a report about a candidate.
CandidateReport(u, p, recent, due) ==
  /\ discovery.phase = "subscribed"
  /\ discovery.eventCount < MaxWindow
  /\ u \in CandidateUrls
  /\ Commit([State EXCEPT !.discovery = onReportEvent(discovery, u, p, recent, due)],
            "report", due)

NextAggregate ==
  \/ \E u \in CandidateUrls, p \in MonitorKeys, recent \in BOOLEAN, due \in BOOLEAN :
        CandidateReport(u, p, recent, due)
  \/ DiscoveryEose
  \/ DiscoveryTimeout

SpecAggregate == InitAggregate /\ [][NextAggregate]_vars

\* The candidates of the run with their aggregated entries.
Aggregated ==
  { aggregateRelayReports(discovery.relayReports[i].url,
                          discovery.relayReports[i].reports) :
      i \in 1..Len(discovery.relayReports) }

\* C21 (as claimed): the confidence computed for a candidate lies in [0,1],
\* that is between 0 and ConfidenceUnit sixtieths, and is at most
\* min(1, reportCount / max(R, 3)) for its reports in the window and its R
\* distinct reporters.
C21_ConfidenceBounded ==
  \A i \in 1..Len(discovery.relayReports) :
     LET reports == discovery.relayReports[i].reports
         a == aggregateRelayReports(discovery.relayReports[i].url, reports)
         reportCount == Cardinality({ k \in 1..Len(reports) : reports[k].recent })
         R == Cardinality({ reports[k].pubkey : k \in 1..Len(reports) })
     IN /\ 0 <= a.confidence
        /\ a.confidence <= ConfidenceUnit
        /\ a.confidence * Max({R, 3}) <= reportCount * ConfidenceUnit

\* The catalog states a run has produced: what discoverRelays returned and
\* what the last progress update gave to the hook.
Catalogs ==
  (IF discovery.returned.def THEN {discovery.returned.v} ELSE {})
    \cup (IF discovery.hookState # NoRunState THEN {discovery.hookState} ELSE {})

CuratedUrls == { popularRelays[i] : i \in 1..Len(popularRelays) }

\* C22: every catalog state holds every curated relay at its baseline
\* confidence, once, and no other entry of it has the address of a curated
\* relay.
C22_CuratedKept ==
  \A c \in Catalogs :
     /\ \A i \in 1..Len(popularRelays) :
           /\ \E k \in 1..Len(c.relays) : c.relays[k] = convertPopularRelaysToNIP66[i]
           /\ Cardinality({ k \in 1..Len(c.relays) :
                              c.relays[k].url = popularRelays[i] }) = 1

\* A monitor has reported a curated address and another one inside the
\* window, and the catalog was updated from the reports.
C22_Witness ==
  /\ \E i \in 1..Len(discovery.relayReports) :
        /\ discovery.relayReports[i].url \in CuratedUrls
        /\ discovery.relayReports[i].reports[1].recent
  /\ Len(discovery.hookState.relays) > Len(popularRelays)
  /\ last.op \in {"report", "discovery:eose"}

\* C23 (as claimed): a failure during a run that discoverRelays started
\* never surfaces: every catalog state has error null and holds the curated
\* list.  (No run of this specification is started by refreshRelays.)
C23_NoErrorSurfaces ==
  \A c \in Catalogs :
     /\ c.error = "null"
     /\ \A i \in 1..Len(popularRelays) :
           \E k \in 1..Len(c.relays) : c.relays[k] = convertPopularRelaysToNIP66[i]

\* ---------------------------------------------------------------- refresh
\* clearCache
clearCache(d) == [d EXCEPT !.relayCache = {}]

\* refreshRelays of the hook: clearCache(), then discoverRelays().
refreshRelays(d, thr) == discoverRelays(clearCache(d), thr)

\* The user asks for a refresh of the catalog.
RefreshRelays(thr) ==
  /\ discovery.phase \in {"none", "finished"}
  /\ thr \in {"none", "ndk"}
  /\ Commit([State EXCEPT !.discovery =
                [refreshRelays(discovery, thr) EXCEPT
                   !.refresh = [on |-> TRUE, relays |-> discovery.hookState.relays]]],
            "refreshRelays", Len(discovery.hookState.relays) > Len(popularRelays))

NextRefresh ==
  \/ NextDiscovery
  \/ \E thr \in {"none", "ndk"} : RefreshRelays(thr)

SpecRefresh == Init /\ [][NextRefresh]_vars

\* C24 (as claimed): when the run that refreshRelays started has failed, the
\* catalog the hook shows still holds every entry it showed before the
\* refresh.
C24_FailedRefreshKeepsCatalog ==
  (discovery.refresh.on /\ discovery.hookState.error # "null")
     => \A k \in 1..Len(discovery.refresh.relays) :
          \E j \in 1..Len(discovery.hookState.relays) :
             discovery.hookState.relays[j] = discovery.refresh.relays[k]

\* ------------------------------------------------- the profile resolver
\* C25 (as claimed): requestProfiles(P) adds to the pending set exactly the
\* authors of P that hold no cached record younger than the TTL and are
\* neither pending nor in an in-flight batch; an author whose record has
\* expired is added again.
C25_RequestAddsEligible ==
  \A P \in SUBSET Pubkeys :
     requestProfiles(State, P).pendingPubkeys =
       pendingPubkeys \cup
         { k \in P : /\ ~ (profiles[k].cached /\ profiles[k].fresh)
                     /\ k \notin pendingPubkeys
                     /\ k \notin activeBatchesRef }

\* ------------------------------------------------ the chunks of a flush
MaxAuthors == 120
Authors == 1..MaxAuthors
\* Subscription objects for the chunks of one flush and of the next flush's
\* first chunks.
ChunkSlots == MaxAuthors \div MAX_BATCH_SIZE + 2
RequestSizes == {1, MAX_BATCH_SIZE, MAX_BATCH_SIZE + 1, 2 * MAX_BATCH_SIZE, MaxAuthors}

\* A connected session of a consumer that knows the authors 1..MaxAuthors.
InitChunks ==
  StartIn([ConnectedSession EXCEPT !.subs = [i \in 1..ChunkSlots |-> NoSub],
                                   !.profiles = [k \in Authors |-> NoProfile]],
          "relay:connect")

\* A consumer asks for the profiles of the authors 1..n.
RequestAuthors(n) ==
  Commit(requestProfiles(State, 1..n), "requestProfiles", FALSE)

NextChunks ==
  \/ \E n \in RequestSizes : RequestAuthors(n)
  \/ BatchTimeout("none")
  \/ \E f \in 1..MaxFlushes, k \in 1..(MaxAuthors \div MAX_BATCH_SIZE) :
        ChunkTimeout(f, k, "none")

SpecChunks == InitChunks /\ [][NextChunks]_vars

\* C26: a flush of the pending set P requests ceil(|P| / 50) chunks of at
\* most 50 authors each, pairwise disjoint and together equal to P; the
\* first is requested by the flush itself and the others wait on timers with
\* delays that are positive and grow with the chunk's position, and a chunk
\* timer that fires requests the earliest chunk of its flush still waiting.
C26_FlushChunks ==
  [][ /\ (last'.op = "batchTimeout" /\ last'.flag) =>
          LET P == batchTimeoutRef.pending
              later == IF Len(chunkTimers') > Len(chunkTimers)
                         THEN chunkTimers'[Len(chunkTimers')] ELSE << >>
              chunks == << subs'[subscription'].authors >>
                          \o [i \in 1..Len(later) |-> later[i].batch]
          IN /\ Len(chunks) * MAX_BATCH_SIZE >= Cardinality(P)
             /\ (Len(chunks) - 1) * MAX_BATCH_SIZE < Cardinality(P)
             /\ \A i \in 1..Len(chunks) : Cardinality(chunks[i]) <= MAX_BATCH_SIZE
             /\ \A i, j \in 1..Len(chunks) : i # j => chunks[i] \cap chunks[j] = {}
             /\ UNION { chunks[i] : i \in 1..Len(chunks) } = P
             /\ \A i \in 1..Len(later) : later[i].delay > 0
             /\ \A i, j \in 1..Len(later) : i < j => later[i].delay < later[j].delay
      /\ (last'.op = "chunkTimeout" /\ last'.flag) =>
          \E f \in 1..Len(chunkTimers) :
             /\ chunkTimers[f][1].batch = subs'[subscription'].authors
             /\ \/ /\ Len(chunkTimers') = Len(chunkTimers)
                   /\ chunkTimers'[f] = Tail(chunkTimers[f])
                \/ /\ Len(chunkTimers[f]) = 1
                   /\ Len(chunkTimers') = Len(chunkTimers) - 1 ]_vars

\* The third chunk of a flush of MaxAuthors authors has been requested.
C26_Witness ==
  /\ last.op = "chunkTimeout" /\ last.flag
  /\ chunkTimers = << >>
  /\ Cardinality(pendingPubkeys) = MaxAuthors
  /\ Cardinality(subs[subscription].authors) = MaxAuthors - 2 * MAX_BATCH_SIZE

\* ------------------------------------------ every pending author is requested
\* A debounce timer that is set fires: it is set to fire MIN_BATCH_DELAY
\* after the last batch at the latest, whatever the number of times it is
\* replaced.
\* The debounce timer can fire whenever it is set: its callback finds a free
\* subscription object in the model.
BatchTimeoutEnabled ==
  /\ batchTimeoutRef.armed
  /\ ~ createBatchSubscription([State EXCEPT !.batchTimeoutRef = NoBatchTimer],
                               batchTimeoutRef, FirstBatch(batchTimeoutRef.pending),
                               "none").oom

\* WF_vars(BatchTimeout("none")), with ENABLED written as the state
\* predicate it is equal to and the step recognised by the operation it
\* records.
SpecProfilesFair ==
  /\ Init /\ [][NextProfiles]_vars
  /\ \/ []<>(~ BatchTimeoutEnabled)
     \/ []<><<last'.op = "batchTimeout">>_vars

BatchTimeoutNeverBlocked == batchTimeoutRef.armed => BatchTimeoutEnabled

\* ------------------------------------------------ the ceiling of a batch
NextCeiling ==
  \/ \E P \in SUBSET Pubkeys : RequestProfiles(P)
  \/ BatchTimeout("none")
  \/ \E b \in 1..MaxSubs, e \in ProfilePool : ProfileEventDeliver(b, e)
  \/ \E b \in 1..MaxSubs : ProfileEose(b)
  \/ \E B \in SUBSET Pubkeys : BatchCeiling(B)

\* A session that stays connected.
SpecCeiling == InitCache /\ [][NextCeiling]_vars

\* C28 (as claimed): when the 10 s timer of a batch fires, no author of the
\* batch is left marked in flight.
C28_CeilingClearsMarker ==
  [][ \A B \in ceilingTimers :
        (last'.op = "batchCeiling" /\ B \notin ceilingTimers')
           => B \cap activeBatchesRef' = {} ]_vars

\* ------------------------------------------------ unparsable profile content
\* C29: the delivery of a profile event whose content does not parse (the
\* step that logs the parse failure) leaves every cached record as it was,
\* and every batch subscription that could deliver events can still deliver
\* them.
C29_UnparsableDiscarded ==
  [][ last'.op = "profileParseError"
        => /\ profiles' = profiles
           /\ \A b \in DOMAIN subs :
                (CanDeliver(b) /\ subs[b].owner = "profiles")
                  => /\ subs'[b] = subs[b]
                     /\ transport'[subs[b].ndk] = transport[subs[b].ndk] ]_vars

\* An unparsable event of author p has arrived on a batch subscription while
\* a record of p was cached; the record is there and the subscription can
\* deliver p's next event.
C29_Witness ==
  /\ last.op = "profileParseError" /\ last.flag
  /\ profiles["p"].cached
  /\ \E b \in DOMAIN subs :
        CanDeliver(b) /\ subs[b].owner = "profiles" /\ "p" \in subs[b].authors

\* ------------------------------------------------ flush timers and disconnect
\* C30 (as claimed): a profile batch subscription is issued only on a
\* connected session and on the instance of its connection; no flush timer
\* left from before a disconnect issues one on the instance torn down.
C30_NoBatchAfterDisconnect ==
  [][ (last'.op \in {"batchTimeout", "chunkTimeout"} /\ last'.flag)
        => /\ isConnected
           /\ subs'[subscription'].ndk = ndk ]_vars

\* ------------------------------------------------ the order of the catalog
\* C31: in every catalog state the curated entries come first, and the
\* entries after them are discovered ones, each with a confidence above 0.2
\* (ConfidenceUnit / 5), in non-increasing order of confidence.
C31_DiscoveredAfterCurated ==
  \A c \in Catalogs :
     LET n == Len(popularRelays) IN
     /\ Len(c.relays) >= n
     /\ \A k \in 1..n : c.relays[k] = convertPopularRelaysToNIP66[k]
     /\ \A k \in (n + 1)..Len(c.relays) :
           /\ c.relays[k].url \notin CuratedUrls
           /\ c.relays[k].confidence * 5 > ConfidenceUnit
           /\ k < Len(c.relays) => c.relays[k].confidence >= c.relays[k + 1].confidence

\* The catalog shows two discovered relays, and the one reported first has
\* the lower confidence.
C31_Witness ==
  /\ Len(discovery.hookState.relays) = Len(popularRelays) + 2
  /\ Len(discovery.relayReports) = 2
  /\ discovery.hookState.relays[Len(popularRelays) + 1].url = discovery.relayReports[2].url
  /\ discovery.hookState.relays[Len(popularRelays) + 1].confidence
       > discovery.hookState.relays[Len(popularRelays) + 2].confidence

\* C32 (as claimed): a candidate whose reports all come from one reporter
\* has a confidence below 1.0 (ConfidenceUnit).
C32_SingleReporterBelowFull ==
  \A i \in 1..Len(discovery.relayReports) :
     LET reports == discovery.relayReports[i].reports
     IN Cardinality({ reports[k].pubkey : k \in 1..Len(reports) }) = 1
          => aggregateRelayReports(discovery.relayReports[i].url, reports).confidence
               < ConfidenceUnit

\* ------------------------------------------------ the weights of the monitors
\* The changes of reliability a caller of updateMonitorReliability asks for,
\* in tenths.
Deltas == {-20, -3, -1, 2, 20}

\* An initialized service: the manager exists and knows no monitor.
InitMonitors ==
  StartIn([InitState EXCEPT !.discovery = initialize(NoDiscovery, "none")], "init")

\* discoverMonitors() is called and settles; found are the authors of the
\* monitor events fetched, throws says that fetchEvents throws.
DiscoverMonitors(found, throws) ==
  /\ discovery.monitorManager
  /\ Commit([State EXCEPT !.discovery.monitors =
                              discoverMonitors(discovery, found, throws)],
            "discoverMonitors", throws)

\* updateMonitorReliability(p, delta) is called.
UpdateMonitorReliability(p, delta) ==
  /\ discovery.monitorManager
  /\ Commit([State EXCEPT !.discovery.monitors =
                              updateMonitorReliability(discovery.monitors, p, delta)],
            "updateMonitorReliability", FALSE)

NextMonitors ==
  \/ BootstrapConnect
  \/ \E found \in SUBSET MonitorKeys, throws \in BOOLEAN : DiscoverMonitors(found, throws)
  \/ \E p \in MonitorKeys, delta \in Deltas : UpdateMonitorReliability(p, delta)

SpecMonitors == InitMonitors /\ [][NextMonitors]_vars

\* C33: a monitor enters the Map with the weight 0.5; a call of
\* discoverMonitors lowers no weight and raises a weight by at most 0.1;
\* every weight stays between 0 and 1.
C33_ReliabilityBounded ==
  [][ \A p \in MonitorKeys :
        /\ (discovery.monitors[p] = NoMonitor /\ discovery.monitors'[p] # NoMonitor)
              => discovery.monitors'[p] = 5
        /\ (last'.op = "discoverMonitors" /\ discovery.monitors[p] # NoMonitor)
              => /\ discovery.monitors'[p] >= discovery.monitors[p]
                 /\ discovery.monitors'[p] <= discovery.monitors[p] + 1
        /\ discovery.monitors'[p] # NoMonitor
              => (0 <= discovery.monitors'[p] /\ discovery.monitors'[p] <= 10) ]_vars

\* After a call of discoverMonitors one monitor has a weight lowered by
\* updateMonitorReliability and the other has reached 1.0.
C33_Witness ==
  /\ last.op = "discoverMonitors"
  /\ discovery.monitors["m1"] = 1
  /\ discovery.monitors["m2"] = 10

\* ------------------------------------------------ the end of a discovery run
\* The 15 s timer of startProgressiveDiscovery is a setTimeout of the event
\* loop: once set it fires.  The relay owes no end-of-stored-events notice.
DiscoveryTimeoutFair ==
  \/ []<>(~ discovery.timer)
  \/ []<><<last'.op = "discovery:timeout">>_vars

SpecDiscoveryFair == SpecDiscovery /\ DiscoveryTimeoutFair

\* C34: a run that has opened its report subscription reaches a progress
\* update with loading = false and a stopped subscription; the update is
\* the one of the end-of-stored-events notice or of the 15 s timeout,
\* whichever comes first, and no later update of the run has loading = true.
C34_RunFinalizes ==
  /\ (discovery.phase = "subscribed")
        ~> (discovery.phase = "finished" /\ ~ discovery.hookState.loading)
  /\ [][ /\ (discovery.phase = "subscribed"
               /\ last'.op \in {"discovery:eose", "discovery:timeout"})
              => (discovery.phase' = "finished" /\ ~ discovery.hookState'.loading)
         /\ (discovery.phase = "finished" /\ ~ discovery.hookState.loading
               /\ last'.op \notin {"discoverRelays", "refreshRelays"})
              => (discovery.phase' = "finished" /\ ~ discovery.hookState'.loading)
       ]_vars

\* The 15 s timeout has ended a run whose subscription had delivered a
\* report and no end-of-stored-events notice.
C34_Witness ==
  /\ last.op = "discovery:timeout"
  /\ discovery.phase = "finished"
  /\ discovery.eventCount > 0
  /\ ~ discovery.hookState.loading

\* --------------------------------------------- connection flags and reports
\* C35 (as claimed): isConnected is true exactly when connectionStatus is
\* connected; after connect() on a connected session it is false.
C35_ConnectedIffStatus == isConnected <=> (connectionStatus = "connected")

Running(b) == b # 0 /\ subs[b].st \in {"live", "idle"}

\* C38: a fallback timer that is pending, and with it the close listener
\* that can still act, belongs to the current subscription, never to a
\* replaced one, and loading goes from true
\* to false only with the end of stored events, the close or the fallback
\* of the current subscription, or because no subscription could be made.
C38_LoadingOfCurrentSubscription ==
  [][ /\ loadTimers' \subseteq {subscriptionRef'}
      /\ (loading /\ ~ loading') =>
            \/ /\ last'.op = "eose"
               /\ Running(subscriptionRef)
               /\ ~ subs[subscriptionRef].eose
               /\ subs'[subscriptionRef].eose
            \/ /\ last'.op = "loadingTimeout"
               /\ subscriptionRef \in loadTimers
               /\ subscriptionRef \notin loadTimers'
            \/ /\ Running(subscriptionRef)
               /\ subscriptionRef' = 0 \/ subs'[subscriptionRef].st \notin {"live", "idle"}
            \/ /\ last'.op \in {"refetch", "relay:connect"}
               /\ error' = "Failed to create subscription"
    ]_vars

\* A refetch has replaced a subscription whose fallback was pending: the
\* only fallback left is the one of the new subscription.
C38_Witness ==
  /\ last.op = "refetch"
  /\ loading
  /\ subscriptionRef = 2
  /\ loadTimers = {2}

\* C39 (as claimed): the tracked set holds no subscription made by a call
\* of subscribe that returned null (one whose start threw is the only kind
\* that exists without having been started).
C39_FailedSubscribeUntracked ==
  \A b \in SeqToSet(activeSubscriptions) : subs[b].st # "idle"

\* ------------------------------------------------ authors asked for twice
\* Author k has been sent in a batch subscription that is still running on a
\* connected transport and has delivered no profile for k yet.
AwaitsResponse(k) ==
  /\ k \in requestedPubkeys
  /\ k \in pendingPubkeys
  /\ \E b \in DOMAIN subs :
        /\ subs[b].owner = "profiles"
        /\ CanDeliver(b)
        /\ k \in subs[b].authors

\* C40 (as claimed): a flush that issues a batch subscription includes no
\* author that awaits the response of a batch issued before.
C40_AuthorSentOnce ==
  [][ (last'.op \in {"batchTimeout", "chunkTimeout"} /\ last'.flag)
        => \A k \in subs'[subscription'].authors : ~ AwaitsResponse(k) ]_vars
====
